---- MODULE Spec2Model ----
(***************************************************************************)
(* A model of the petr compiler front end (sezna/petr).                    *)
(*                                                                         *)
(* Part I models the type checker of petr-typecheck/src/lib.rs: the type   *)
(* context (an arena of PetrType slots indexed by TypeVariable), the       *)
(* collection of Unify / Satisfies constraints by the recursive walk over  *)
(* the resolved functions, on-demand monomorphization at call sites and    *)
(* the single-pass constraint solver.                                      *)
(*                                                                         *)
(* Conventions.  A TypeVariable is a position of the sequence tc.types;    *)
(* position n stands for the index n-1 of the IndexMap of the source, so   *)
(* the id of a fresh Infer slot (types.len() before the insert) is the     *)
(* length of the sequence before the Append.  Every PetrType is a record   *)
(* [k, v]: k is the variant, v its payload.  Identifiers are modelled by   *)
(* their interned name, spans by opaque values.                            *)
(***************************************************************************)
EXTENDS Integers, Sequences, FiniteSets, TLC

VARIABLES
    resolved,   \* QueryableResolvedItems: the resolved types and functions (input)
    tc,         \* the TypeChecker struct (and its TypeContext)
    pc,         \* position of the driver (type_check / TypeChecker::new / fully_type_check)
    run,        \* number of fully_type_check invocations begun so far
    idx,        \* loop index of the running `for` loop over types or functions
    snapshot,   \* apply_constraints: the part of the cloned constraint list still to apply
    parser,     \* the Parser struct (its Lexer, peek buffer, errors, comments, help stack)
    last,       \* the last call made on the component under study, with what it returned
    binder,     \* the Binder struct, with the Ast it binds and the position in it
    cli         \* the compile function of the command line: its position and what it has done

vars == <<resolved, tc, pc, run, idx, snapshot, parser, last, binder, cli>>

(***************************************************************************)
(* Bounds of the model.                                                    *)
(***************************************************************************)
\* number of slots of the contexts drawn for the solver specification
NSlots == 3
\* largest number of functions of a drawn program
MaxFuncs == 2

(***************************************************************************)
(* PetrType (lib.rs 175-200) and Literal.                                  *)
(***************************************************************************)
Unit == [k |-> "Unit", v |-> <<>>]
Integer == [k |-> "Integer", v |-> <<>>]
Boolean == [k |-> "Boolean", v |-> <<>>]
String == [k |-> "String", v |-> <<>>]
ErrorRecovery == [k |-> "ErrorRecovery", v |-> <<>>]
Ref(t) == [k |-> "Ref", v |-> t]
Infer(id, span) == [k |-> "Infer", v |-> <<id, span>>]
Sum(tys) == [k |-> "Sum", v |-> tys]
Literal(l) == [k |-> "Literal", v |-> l]
List(t) == [k |-> "List", v |-> t]
Arrow(tys) == [k |-> "Arrow", v |-> tys]
UserDefined(name, variants, lits) == [k |-> "UserDefined", v |-> <<name, variants, lits>>]

LitInteger(n) == [k |-> "Integer", v |-> n]
LitBoolean(b) == [k |-> "Boolean", v |-> b]
LitString(s) == [k |-> "String", v |-> s]

\* a map (BTreeMap) is a function; the empty one and insert
EmptyMap == [x \in {} |-> 0]
MapInsert(m, key, val) == [x \in (DOMAIN m) \cup {key} |-> IF x = key THEN val ELSE m[x]]

SeqContains(s, x) == \E i \in 1..Len(s) : s[i] = x
SeqFilter(s, keep(_)) == SelectSeq(s, keep)

(***************************************************************************)
(* TypeContext and TypeChecker (lib.rs 91-173).                            *)
(***************************************************************************)
\* the sentinel variables, in the order TypeContext::default inserts them
unit_ty == 1
string_ty == 2
bool_ty == 3
int_ty == 4
error_recovery == 5

DefaultTypes == <<Unit, String, Boolean, Integer, ErrorRecovery>>

\* The struct literal of TypeChecker::new (lib.rs 517-526).  `aborted` is not a
\* field of the struct: it records how the process died ("stack overflow" of an
\* unbounded recursion, "panic" of an expect), "no" while it lives.
TypeCheckerOf(rs) == [types |-> DefaultTypes, constraints |-> <<>>, errors |-> <<>>, type_map |-> EmptyMap, typed_functions |-> EmptyMap, monomorphized_functions |-> EmptyMap, variable_scope |-> <<>>, resolved |-> rs, aborted |-> "no"]

update_type(c, t1, known) == [c EXCEPT !.types[t1] = known]

push_error(c, e) == [c EXCEPT !.errors = Append(@, e)]

Abort(c) == [c EXCEPT !.aborted = "stack overflow"]

Panic(c) == [c EXCEPT !.aborted = "panic"]

(***************************************************************************)
(* Pretty printing of a type for an error message (lib.rs 1342-1400):      *)
(* a Ref is printed as the type it forwards to, an Infer without its span, *)
(* a user-defined type by name.  The rendering is a [k, v] record.         *)
(***************************************************************************)
RECURSIVE pretty_print_petr_type(_, _, _)
pretty_print_petr_type(ty, c, fuel) ==
    IF fuel = 0 THEN [k |-> "diverged", v |-> <<>>]
    ELSE CASE ty.k = "Unit" -> [k |-> "unit", v |-> <<>>]
           [] ty.k = "Integer" -> [k |-> "int", v |-> <<>>]
           [] ty.k = "Boolean" -> [k |-> "bool", v |-> <<>>]
           [] ty.k = "String" -> [k |-> "string", v |-> <<>>]
           [] ty.k = "Ref" -> pretty_print_petr_type(c.types[ty.v], c, fuel - 1)
           [] ty.k = "UserDefined" -> [k |-> "named", v |-> ty.v[1].id]
           [] ty.k = "Arrow" -> [k |-> "arrow", v |-> [i \in 1..Len(ty.v) |-> pretty_print_petr_type(c.types[ty.v[i]], c, fuel - 1)]]
           [] ty.k = "ErrorRecovery" -> [k |-> "error recovery", v |-> <<>>]
           [] ty.k = "List" -> [k |-> "list", v |-> pretty_print_petr_type(c.types[ty.v], c, fuel - 1)]
           [] ty.k = "Infer" -> [k |-> "infer", v |-> ty.v[1]]
           [] ty.k = "Sum" -> [k |-> "sum", v |-> [i \in 1..Len(ty.v) |-> pretty_print_petr_type(ty.v[i], c, fuel - 1)]]
           [] ty.k = "Literal" -> [k |-> "Literal", v |-> ty.v]

PrintFuel(c) == Len(c.types) + 3

unify_err(c, a, b) == [kind |-> "UnificationFailure", a |-> pretty_print_petr_type(a, c, PrintFuel(c)), b |-> pretty_print_petr_type(b, c, PrintFuel(c))]

satisfy_err(c, a, b) == [kind |-> "FailedToSatisfy", a |-> pretty_print_petr_type(a, c, PrintFuel(c)), b |-> pretty_print_petr_type(b, c, PrintFuel(c))]

\* span.with_item(error)
WithSpan(e, span) == [item |-> e, span |-> span]

(***************************************************************************)
(* PetrType::is_generalized_of (lib.rs 205-220).                           *)
(***************************************************************************)
AllLiteralsOf(sum_tys, carrier) == \A i \in 1..Len(sum_tys) : sum_tys[i].k = "Literal" /\ sum_tys[i].v.k = carrier

RECURSIVE is_generalized_of(_, _, _, _)
is_generalized_of(self, sum_tys, c, fuel) ==
    IF fuel = 0 THEN FALSE
    ELSE CASE self.k = "String" -> AllLiteralsOf(sum_tys, "String")
           [] self.k = "Integer" -> AllLiteralsOf(sum_tys, "Integer")
           [] self.k = "Boolean" -> AllLiteralsOf(sum_tys, "Boolean")
           [] self.k = "Ref" -> is_generalized_of(c.types[self.v], sum_tys, c, fuel - 1)
           [] self.k = "Sum" -> \A i \in 1..Len(self.v) : SeqContains(sum_tys, self.v[i])
           [] OTHER -> FALSE

\* the carrier test of the literal arms: (Literal::Integer(_), Integer) | ...
LiteralMatchesPrimitive(lit, ty) == ty.k \in {"Integer", "Boolean", "String"} /\ lit.k = ty.k

(***************************************************************************)
(* TypeChecker::apply_unify_constraint (lib.rs 370-456).  The match arms   *)
(* are tried in the order of the source; the guards and the rewrites of    *)
(* the arms are definitions of their own.                                  *)
(***************************************************************************)
\* 380: (a, b) if a == b
SameType(ty1, ty2) == ty1 = ty2

\* mutant: the arm forgets the symmetric case
EitherErrorRecovery_LeftOnly(ty1, ty2) == ty1.k = "ErrorRecovery"

\* 381 and 471: (ErrorRecovery, _) | (_, ErrorRecovery)
EitherErrorRecovery(ty1, ty2) == ty1.k = "ErrorRecovery" \/ ty2.k = "ErrorRecovery"

\* mutant: the reference is written with the wrong target
UnifyInferInfer_SelfRef(c, t1, t2) == update_type(c, t2, Ref(t2))

\* 384-388: two different inferred types: the second becomes a reference to the first
UnifyInferInfer(c, t1, t2) == update_type(c, t2, Ref(t1))

\* 389-394: the unification of two sum types is the union of the two
UnifySumSum(c, t1, t2, a_tys, b_tys) == update_type(update_type(c, t1, Sum(a_tys \o b_tys)), t2, Ref(t1))

\* 395-401: a sum type and another type: the sum type plus the other type
UnifySumOther(c, t1, t2, sum_tys, other) == update_type(update_type(c, t1, Sum(Append(sum_tys, other))), t2, Ref(t1))

\* 404-410: two different literals widen to a sum of both
UnifyLiteralLiteral(c, t1, t2, l1, l2) == update_type(update_type(c, t1, Sum(<<Literal(l1), Literal(l2)>>)), t2, Ref(t1))

\* mutant: the literal is left out of the widened sum
UnifyLiteralSum_DropsLiteral(c, t1, t2, l1, tys) == update_type(update_type(c, t1, Sum(tys)), t2, Ref(t1))

\* 411-417: a literal and a sum
UnifyLiteralSum(c, t1, t2, l1, tys) == update_type(update_type(c, t1, Sum(<<Literal(l1)>> \o tys)), t2, Ref(t1))

\* 420-425: (ty, Literal(lit)): the broader parent type is instantiated with the literal
UnifyTypeLiteral(c, t1, ty, lit, span) ==
    IF LiteralMatchesPrimitive(lit, ty) THEN update_type(c, t1, Literal(lit))
    ELSE push_error(c, WithSpan(unify_err(c, ty, Literal(lit)), span))

\* 428-435: (Literal(lit), ty)
UnifyLiteralType(c, t2, lit, ty, span) ==
    IF LiteralMatchesPrimitive(lit, ty) THEN update_type(c, t2, Literal(lit))
    ELSE push_error(c, WithSpan(unify_err(c, ty, Literal(lit)), span))

\* 436-443: (other, Sum(sum_tys)): an error unless other is a member; t2 is rewritten either way
UnifyOtherSum(c, t2, other, sum_tys, span) ==
    LET c1 == IF ~SeqContains(sum_tys, other) THEN push_error(c, WithSpan(unify_err(c, other, Sum(sum_tys)), span)) ELSE c
    IN update_type(c1, t2, other)

\* 452-454: no unification rule exists for these two types
UnifyMismatch(c, a, b, span) == push_error(c, WithSpan(unify_err(c, a, b), span))

RECURSIVE unify_rec(_, _, _, _, _)
unify_rec(c, t1, t2, span, fuel) ==
    LET ty1 == c.types[t1]
        ty2 == c.types[t2]
    IN IF fuel = 0 THEN Abort(c)
       ELSE IF SameType(ty1, ty2) THEN c
       ELSE IF EitherErrorRecovery(ty1, ty2) THEN c
       ELSE IF ty1.k = "Ref" THEN unify_rec(c, ty1.v, t2, span, fuel - 1)
       ELSE IF ty2.k = "Ref" THEN unify_rec(c, t1, ty2.v, span, fuel - 1)
       ELSE IF ty1.k = "Infer" /\ ty2.k = "Infer" /\ ty1.v[1] # ty2.v[1] THEN UnifyInferInfer(c, t1, t2)
       ELSE IF ty1.k = "Sum" /\ ty2.k = "Sum" THEN UnifySumSum(c, t1, t2, ty1.v, ty2.v)
       ELSE IF ty1.k = "Sum" THEN UnifySumOther(c, t1, t2, ty1.v, ty2)
       ELSE IF ty1.k = "Literal" /\ ty2.k = "Literal" /\ ty1.v = ty2.v THEN c
       ELSE IF ty1.k = "Literal" /\ ty2.k = "Literal" /\ ty1.v # ty2.v THEN UnifyLiteralLiteral(c, t1, t2, ty1.v, ty2.v)
       ELSE IF ty1.k = "Literal" /\ ty2.k = "Sum" THEN UnifyLiteralSum(c, t1, t2, ty1.v, ty2.v)
       ELSE IF ty2.k = "Literal" THEN UnifyTypeLiteral(c, t1, ty1, ty2.v, span)
       ELSE IF ty1.k = "Literal" THEN UnifyLiteralType(c, t2, ty1.v, ty2, span)
       ELSE IF ty2.k = "Sum" THEN UnifyOtherSum(c, t2, ty1, ty2.v, span)
       ELSE IF ty1.k = "Infer" THEN update_type(c, t1, ty2)
       ELSE IF ty2.k = "Infer" THEN update_type(c, t2, ty1)
       ELSE UnifyMismatch(c, ty1, ty2, span)

\* the recursion follows one Ref per call: with no cycle of Refs it ends within
\* twice the number of slots; running out of fuel is the unbounded recursion
SolveFuel(c) == 2 * Len(c.types) + 2

apply_unify_constraint(c, t1, t2, span) == unify_rec(c, t1, t2, span, SolveFuel(c))

(***************************************************************************)
(* TypeChecker::apply_satisfies_constraint (lib.rs 460-514).               *)
(***************************************************************************)
\* 475 and 479: Unit | Integer | Boolean | UserDefined | String | Arrow | List | Literal | Sum
FullyInstantiated(ty) == ty.k \in {"Unit", "Integer", "Boolean", "UserDefined", "String", "Arrow", "List", "Literal", "Sum"}

\* 474-477: t1 is fully instantiated and t2 an Infer: t2 becomes a reference to t1
SatisfyInstantiatedInfer(c, t1, t2) == update_type(c, t2, Ref(t1))

\* 478-479: the "parent" infer type will not instantiate to the "child" type
SatisfyInferInstantiated(c, t1, t2) == c

\* 480-484: the intersection of two sums; t2 is updated to it
SatisfySumSum(c, t2, a_tys, b_tys) ==
    LET InB(a_ty) == SeqContains(b_tys, a_ty)
    IN update_type(c, t2, Sum(SeqFilter(a_tys, InB)))

\* mutant: the membership test is dropped
SumAccepts_GeneralizedOnly(c, sum_tys, other) == is_generalized_of(other, sum_tys, c, 2 * Len(c.types) + 2)

\* 485-497: `other` generalizes the sum type, or is a member of it
SumAccepts(c, sum_tys, other) == is_generalized_of(other, sum_tys, c, SolveFuel(c)) \/ SeqContains(sum_tys, other)

SatisfySumOther(c, sum_tys, other, span) ==
    IF SumAccepts(c, sum_tys, other) THEN c
    ELSE push_error(c, WithSpan(satisfy_err(c, other, Sum(sum_tys)), span))

\* 500-507: (ty, Literal(lit)): literals can satisfy broader parent types
SatisfyTypeLiteral(c, ty, lit, span) ==
    IF LiteralMatchesPrimitive(lit, ty) THEN c
    ELSE push_error(c, WithSpan(satisfy_err(c, ty, Literal(lit)), span))

\* 510-512
SatisfyMismatch(c, a, b, span) == push_error(c, WithSpan(satisfy_err(c, a, b), span))

RECURSIVE satisfies_rec(_, _, _, _, _)
satisfies_rec(c, t1, t2, span, fuel) ==
    LET ty1 == c.types[t1]
        ty2 == c.types[t2]
    IN IF fuel = 0 THEN Abort(c)
       ELSE IF SameType(ty1, ty2) THEN c
       ELSE IF EitherErrorRecovery(ty1, ty2) THEN c
       ELSE IF ty1.k = "Ref" THEN satisfies_rec(c, ty1.v, t2, span, fuel - 1)
       ELSE IF ty2.k = "Ref" THEN satisfies_rec(c, t1, ty2.v, span, fuel - 1)
       ELSE IF FullyInstantiated(ty1) /\ ty2.k = "Infer" THEN SatisfyInstantiatedInfer(c, t1, t2)
       ELSE IF ty1.k = "Infer" /\ FullyInstantiated(ty2) THEN SatisfyInferInstantiated(c, t1, t2)
       ELSE IF ty1.k = "Sum" /\ ty2.k = "Sum" THEN SatisfySumSum(c, t2, ty1.v, ty2.v)
       ELSE IF ty1.k = "Sum" THEN SatisfySumOther(c, ty1.v, ty2, span)
       ELSE IF ty2.k = "Sum" THEN SatisfySumOther(c, ty2.v, ty1, span)
       ELSE IF ty1.k = "Literal" /\ ty2.k = "Literal" /\ ty1.v = ty2.v THEN c
       ELSE IF ty2.k = "Literal" THEN SatisfyTypeLiteral(c, ty1, ty2.v, span)
       ELSE IF ty1.k = "Infer" THEN c
       ELSE SatisfyMismatch(c, ty1, ty2, span)

apply_satisfies_constraint(c, t1, t2, span) == satisfies_rec(c, t1, t2, span, SolveFuel(c))

(***************************************************************************)
(* TypeConstraint (lib.rs 54-89) and one iteration of the loop of          *)
(* apply_constraints (lib.rs 354-366).                                     *)
(***************************************************************************)
UnifyConstraint(t1, t2, span) == [kind |-> "Unify", t1 |-> t1, t2 |-> t2, span |-> span]
SatisfiesConstraint(t1, t2, span) == [kind |-> "Satisfies", t1 |-> t1, t2 |-> t2, span |-> span]

apply_constraint(c, constraint) ==
    IF constraint.kind = "Unify" THEN apply_unify_constraint(c, constraint.t1, constraint.t2, constraint.span)
    ELSE apply_satisfies_constraint(c, constraint.t1, constraint.t2, constraint.span)

(***************************************************************************)
(* The resolved program (petr_resolve, the input of the type checker).     *)
(* A FunctionId or TypeId is the position of the declaration.              *)
(***************************************************************************)
Ident(name, span) == [id |-> name, span |-> span]

\* petr_resolve::Type
TyInteger == [k |-> "Integer", v |-> <<>>]
TyBool == [k |-> "Bool", v |-> <<>>]
TyUnit == [k |-> "Unit", v |-> <<>>]
TyString == [k |-> "String", v |-> <<>>]
TyErrorRecovery == [k |-> "ErrorRecovery", v |-> <<>>]
TyNamed(ty_id) == [k |-> "Named", v |-> ty_id]
TyGeneric(name) == [k |-> "Generic", v |-> name]
TySum(tys) == [k |-> "Sum", v |-> tys]
TyLiteral(l) == [k |-> "Literal", v |-> l]

\* petr_resolve::Expr
ELiteral(l, span) == [kind |-> "Literal", value |-> l, span |-> span]
EList(exprs, span) == [kind |-> "List", elements |-> exprs, span |-> span]
ECall(f, args, span) == [kind |-> "FunctionCall", function |-> f, args |-> args, span |-> span]
EUnit(span) == [kind |-> "Unit", span |-> span]
EErrorRecovery(span) == [kind |-> "ErrorRecovery", span |-> span]
EVariable(name, ty, span) == [kind |-> "Variable", name |-> name, ty |-> ty, span |-> span]
EIntrinsic(intrinsic, args, span) == [kind |-> "Intrinsic", intrinsic |-> intrinsic, args |-> args, span |-> span]
ETypeConstructor(ty_id, args, span) == [kind |-> "TypeConstructor", type_id |-> ty_id, args |-> args, span |-> span]
EBindings(bindings, expr, span) == [kind |-> "ExpressionWithBindings", bindings |-> bindings, expression |-> expr, span |-> span]
EIf(cond, then, else, span) == [kind |-> "If", condition |-> cond, then_branch |-> then, else_branch |-> else, span |-> span]

\* petr_resolve::Function and the type declaration
FunctionDecl(name, params, ret, body) == [name |-> name, params |-> params, return_type |-> ret, body |-> body]
TypeDecl(name, variants, lits) == [name |-> name, variants |-> variants, constant_literal_types |-> lits]

(***************************************************************************)
(* Small operations of the checker.  An operation that changes the checker *)
(* and returns a value yields [c |-> the checker after, out |-> the value].*)
(***************************************************************************)
\* TypeContext::unify / TypeChecker::unify (lib.rs 125-132, 618-625)
unify(c, ty1, ty2, span) == [c EXCEPT !.constraints = Append(@, UnifyConstraint(ty1, ty2, span))]

\* TypeContext::satisfies / TypeChecker::satisfies (lib.rs 134-141, 627-634)
satisfies(c, ty1, ty2, span) == [c EXCEPT !.constraints = Append(@, SatisfiesConstraint(ty1, ty2, span))]

\* TypeChecker::insert_type (lib.rs 229-235)
insert_type(c, ty) == [c |-> [c EXCEPT !.types = Append(@, ty)], out |-> Len(c.types) + 1]

\* TypeContext::new_variable / fresh_ty_var (lib.rs 143-151, 543-548): infer knows its own id
new_variable(c, span) == insert_type(c, Infer(Len(c.types), span))

\* with_type_scope (lib.rs 251-259): the push before and the pop after the closure
PushScope(c) == [c EXCEPT !.variable_scope = Append(@, EmptyMap)]
PopScope(c) == [c EXCEPT !.variable_scope = SubSeq(@, 1, Len(@) - 1)]

\* the innermost scope binding the identifier, 0 when none does (the reversed
\* iteration of lib.rs 265 and 289); the scopes are keyed by the Identifier
InnermostScope(c, id) ==
    LET hits == {i \in 1..Len(c.variable_scope) : id \in DOMAIN c.variable_scope[i]}
    IN IF hits = {} THEN 0 ELSE CHOOSE i \in hits : \A j \in hits : j <= i

\* find_variable (lib.rs 285-295): the slot, 0 for None
find_variable(c, id) == IF InnermostScope(c, id) = 0 THEN 0 ELSE c.variable_scope[InnermostScope(c, id)][id]

\* insert_variable (lib.rs 532-541)
insert_variable(c, id, ty) ==
    IF c.variable_scope = <<>> THEN Panic(c)
    ELSE [c EXCEPT !.variable_scope[Len(c.variable_scope)] = MapInsert(@, id, ty)]

\* generic_type (lib.rs 261-283)
generic_type(c, id) ==
    IF InnermostScope(c, id) # 0 THEN [c |-> c, out |-> c.variable_scope[InnermostScope(c, id)][id]]
    ELSE LET fresh == new_variable(c, id.span)
         IN IF c.variable_scope # <<>>
            THEN [c |-> [fresh.c EXCEPT !.variable_scope[Len(c.variable_scope)] = MapInsert(@, id, fresh.out)], out |-> fresh.out]
            ELSE [c |-> update_type(push_error(fresh.c, WithSpan([kind |-> "Internal"], id.span)), fresh.out, ErrorRecovery), out |-> fresh.out]

TypeKey(ty_id) == <<"TypeId", ty_id>>
FunctionKey(f) == <<"FunctionId", f>>

\* to_petr_type (lib.rs 564-586)
RECURSIVE to_petr_type(_, _)
to_petr_type(c, ty) ==
    CASE ty.k = "Integer" -> [c |-> c, out |-> Integer]
      [] ty.k = "Bool" -> [c |-> c, out |-> Boolean]
      [] ty.k = "Unit" -> [c |-> c, out |-> Unit]
      [] ty.k = "String" -> [c |-> c, out |-> String]
      [] ty.k = "ErrorRecovery" -> [c |-> c, out |-> ErrorRecovery]
      [] ty.k = "Named" -> IF TypeKey(ty.v) \in DOMAIN c.type_map THEN [c |-> c, out |-> Ref(c.type_map[TypeKey(ty.v)])] ELSE [c |-> Panic(c), out |-> ErrorRecovery]
      [] ty.k = "Generic" -> LET g == generic_type(c, ty.v) IN [c |-> g.c, out |-> Ref(g.out)]
      [] ty.k = "Sum" -> IF ty.v = <<>> THEN [c |-> c, out |-> Sum(<<>>)]
                         ELSE LET h == to_petr_type(c, Head(ty.v))
                                  t == to_petr_type(h.c, TySum(Tail(ty.v)))
                              IN [c |-> t.c, out |-> Sum(<<h.out>> \o t.out.v)]
      [] ty.k = "Literal" -> [c |-> c, out |-> Literal(ty.v)]

\* to_type_var (lib.rs 588-594)
to_type_var(c, ty) == LET p == to_petr_type(c, ty) IN insert_type(p.c, p.out)

\* to_type_var over a list, in order
RECURSIVE to_type_vars(_, _)
to_type_vars(c, tys) ==
    IF tys = <<>> THEN [c |-> c, out |-> <<>>]
    ELSE LET h == to_type_var(c, Head(tys))
             t == to_type_vars(h.c, Tail(tys))
         IN [c |-> t.c, out |-> <<h.out>> \o t.out]

\* arrow_type (lib.rs 550-562): a single-element arrow collapses to its element
arrow_type(c, tys) == IF Len(tys) = 1 THEN [c |-> c, out |-> tys[1]] ELSE insert_type(c, Arrow(tys))

\* convert_literal_to_type (lib.rs 603-609)
convert_literal_to_type(c, literal) == insert_type(c, Literal(literal))

\* expr_ty (lib.rs 670-687)
RECURSIVE expr_ty(_)
expr_ty(expr) ==
    CASE expr.kind \in {"FunctionCall", "Literal", "List", "Variable", "Intrinsic", "TypeConstructor"} -> expr.ty
      [] expr.kind = "Unit" -> unit_ty
      [] expr.kind = "ErrorRecovery" -> error_recovery
      [] expr.kind = "ExprWithBindings" -> expr_ty(expr.expression)
      [] expr.kind = "If" -> expr_ty(expr.then_branch)

\* unify_expr_return (lib.rs 690-697) and satisfy_expr_return (lib.rs 750-757)
unify_expr_return(c, ty, expr) == unify(c, ty, expr_ty(expr), expr.span)
satisfy_expr_return(c, ty, expr) == satisfies(c, ty, expr_ty(expr), expr.span)

(***************************************************************************)
(* Collection: the type_check of expressions, intrinsics, functions and    *)
(* calls.  These call each other; `depth` counts the Function::type_check  *)
(* frames on the stack.  get_function type-checks a callee that is not yet *)
(* in typed_functions, and enters it into typed_functions only after that  *)
(* check returns: a function that is reached again while its own check is  *)
(* on the stack is checked again from the same checker state, without end. *)
(* A stack deeper than the number of functions holds one function twice,   *)
(* which is that unbounded recursion: the process dies of stack overflow.  *)
(***************************************************************************)
StackLimit(c) == Len(c.resolved.functions)

TErrorRecovery(span) == [kind |-> "ErrorRecovery", span |-> span]

NoFunction == [name |-> Ident("", 0), params |-> <<>>, body |-> TErrorRecovery(0), return_ty |-> error_recovery]

\* get_type (lib.rs 596-601): the slot of a declared type, 0 when the expect fails
get_type(c, ty_id) == IF TypeKey(ty_id) \in DOMAIN c.type_map THEN c.type_map[TypeKey(ty_id)] ELSE 0

\* replace_var_reference_types (lib.rs 1244-1278)
RECURSIVE replace_var_reference_types(_, _)
replace_var_reference_types(expr, params) ==
    CASE expr.kind = "Variable" ->
            LET hits == {i \in 1..Len(params) : params[i][1].id = expr.name.id}
            IN IF hits = {} THEN expr
               ELSE [expr EXCEPT !.ty = params[CHOOSE i \in hits : \A j \in hits : i <= j][2]]
      [] expr.kind = "FunctionCall" ->
            [expr EXCEPT !.args = [i \in 1..Len(expr.args) |-> <<expr.args[i][1], replace_var_reference_types(expr.args[i][2], params)>>]]
      [] expr.kind = "Intrinsic" ->
            [expr EXCEPT !.args = [i \in 1..Len(expr.args) |-> replace_var_reference_types(expr.args[i], params)]]
      [] OTHER -> expr

\* the parameters of the monomorphized declaration (lib.rs 1221-1224): one new
\* slot per parameter, holding the content of the argument's slot
RECURSIVE monomorphize_params(_, _, _)
monomorphize_params(c, params, concrete_arg_types) ==
    IF params = <<>> \/ concrete_arg_types = <<>> THEN [c |-> c, out |-> params]
    ELSE LET h == insert_type(c, Head(concrete_arg_types))
             t == monomorphize_params(h.c, Tail(params), Tail(concrete_arg_types))
         IN [c |-> t.c, out |-> <<(<<Head(params)[1], h.out>>)>> \o t.out]

\* mutant: every call specializes again
AlreadyMonomorphized_Never(c, signature) == FALSE

\* the key of the monomorphization table is already there (lib.rs 1198)
AlreadyMonomorphized(c, signature) == signature \in DOMAIN c.monomorphized_functions

\* mutant: no arity check
ArityMismatch_Never(call, func_decl) == FALSE

\* the arity check of a call (lib.rs 1173)
ArityMismatch(call, func_decl) == Len(call.args) # Len(func_decl.params)

RECURSIVE type_check_expr(_, _, _)
RECURSIVE type_check_exprs(_, _, _)
RECURSIVE type_check_bindings(_, _, _)
RECURSIVE type_check_args(_, _, _, _)
RECURSIVE type_check_intrinsic(_, _, _)
RECURSIVE type_check_function(_, _, _)
RECURSIVE type_check_call(_, _, _)
RECURSIVE get_function(_, _, _)

\* the collected vector after one more element: x, then the rest t
Collected(x, t) == [c |-> t.c, out |-> <<x>> \o t.out]

\* exprs.iter().map(|expr| expr.type_check(ctx)).collect() (lib.rs 906, 937):
\* the first expression is checked (h), then the others from the checker it left
type_check_exprs_rest(h, rest, depth) == Collected(h.out, type_check_exprs(rest, h.c, depth))

type_check_exprs(exprs, c, depth) ==
    IF exprs = <<>> THEN [c |-> c, out |-> <<>>]
    ELSE type_check_exprs_rest(type_check_expr(Head(exprs), c, depth), Tail(exprs), depth)

\* the loop over the bindings of a let (lib.rs 948-953): h is the checked right
\* hand side of the first binding
type_check_bindings_rest(name, h, rest, depth) ==
    Collected(<<name, h.out>>, type_check_bindings(rest, insert_variable(h.c, name, expr_ty(h.out)), depth))

type_check_bindings(bindings, c, depth) ==
    IF bindings = <<>> THEN [c |-> c, out |-> <<>>]
    ELSE type_check_bindings_rest(Head(bindings)[1], type_check_expr(Head(bindings)[2], c, depth), Tail(bindings), depth)

\* the loop over the arguments of a call (lib.rs 1186-1191): each element of
\* the result is (name, typed argument, slot of the argument); h is the checked
\* first argument and param the parameter it is zipped with
type_check_args_rest(param, h, args, params, depth) ==
    Collected(<<param[1], h.out, expr_ty(h.out)>>,
              type_check_args(args, params, satisfies(h.c, param[2], expr_ty(h.out), h.out.span), depth))

type_check_args(args, params, c, depth) ==
    IF args = <<>> \/ params = <<>> THEN [c |-> c, out |-> <<>>]
    ELSE type_check_args_rest(Head(params), type_check_expr(Head(args), c, depth), Tail(args), Tail(params), depth)

\* unify the type of the first element against every other one (lib.rs 909-912)
RECURSIVE unify_list_elements(_, _, _)
unify_list_elements(c, first_ty, rest) ==
    IF rest = <<>> THEN c
    ELSE unify_list_elements(unify(c, first_ty, expr_ty(Head(rest)), Head(rest).span), first_ty, Tail(rest))

\* for (name, ty) in &params { ctx.insert_variable(*name, *ty) } (lib.rs 1145-1147)
RECURSIVE insert_variables(_, _)
insert_variables(c, params) ==
    IF params = <<>> THEN c
    ELSE insert_variables(insert_variable(c, Head(params)[1], Head(params)[2]), Tail(params))

\* ExprKind::Literal (lib.rs 897-900); t is the slot of the literal
typed_literal(e, t) == [c |-> t.c, out |-> [kind |-> "Literal", value |-> e.value, ty |-> t.out, span |-> e.span]]

\* ExprKind::List, not empty (lib.rs 906-916); es are the checked elements, l the slot of the list
typed_list_of(e, es, l) == [c |-> l.c, out |-> [kind |-> "List", elements |-> es.out, ty |-> l.out, span |-> e.span]]

typed_list(e, es) == typed_list_of(e, es, insert_type(unify_list_elements(es.c, expr_ty(es.out[1]), Tail(es.out)), List(expr_ty(es.out[1]))))

\* ExprKind::Variable (lib.rs 922-931); var_ty is the slot found in scope, t the slot of the declared type
typed_variable(e, var_ty, t) ==
    IF var_ty = 0 THEN [c |-> Panic(t.c), out |-> TErrorRecovery(e.span)]
    ELSE [c |-> unify(t.c, var_ty, t.out, e.name.span), out |-> [kind |-> "Variable", ty |-> t.out, name |-> e.name, span |-> e.span]]

\* ExprKind::TypeConstructor (lib.rs 933-943); as are the checked arguments
typed_constructor(e, as) ==
    IF get_type(as.c, e.type_id) = 0 THEN [c |-> Panic(as.c), out |-> TErrorRecovery(e.span)]
    ELSE [c |-> as.c, out |-> [kind |-> "TypeConstructor", ty |-> get_type(as.c, e.type_id), args |-> as.out, span |-> e.span]]

\* ExprKind::ExpressionWithBindings (lib.rs 944-960); bs are the checked bindings, x the checked expression
typed_bindings(e, bs, x) ==
    [c |-> PopScope(x.c), out |-> [kind |-> "ExprWithBindings", bindings |-> bs.out, expression |-> x.out, span |-> e.span]]

type_check_bound(e, bs, depth) == typed_bindings(e, bs, type_check_expr(e.expression, bs.c, depth))

\* ExprKind::If (lib.rs 961-983), branch after branch
typed_if(e, cond, then, else) ==
    [c |-> unify(else.c, expr_ty(then.out), expr_ty(else.out), else.out.span),
     out |-> [kind |-> "If", condition |-> cond.out, then_branch |-> then.out, else_branch |-> else.out, span |-> e.span]]

type_check_else(e, cond, then, depth) == typed_if(e, cond, then, type_check_expr(e.else_branch, then.c, depth))

type_check_then(e, cond, depth) ==
    type_check_else(e, cond, type_check_expr(e.then_branch, unify(cond.c, expr_ty(cond.out), bool_ty, cond.out.span), depth), depth)

\* impl TypeCheck for Expr (lib.rs 889-988)
type_check_expr(e, c, depth) ==
    IF c.aborted # "no" THEN [c |-> c, out |-> TErrorRecovery(e.span)]
    ELSE IF e.kind = "Literal" THEN typed_literal(e, convert_literal_to_type(c, e.value))
    ELSE IF e.kind = "List" THEN
        IF e.elements = <<>> THEN [c |-> c, out |-> [kind |-> "List", elements |-> <<>>, ty |-> unit_ty, span |-> e.span]]
        ELSE typed_list(e, type_check_exprs(e.elements, c, depth))
    ELSE IF e.kind = "FunctionCall" THEN type_check_call(e, c, depth)
    ELSE IF e.kind = "Unit" THEN [c |-> c, out |-> [kind |-> "Unit", span |-> e.span]]
    ELSE IF e.kind = "ErrorRecovery" THEN [c |-> c, out |-> TErrorRecovery(e.span)]
    ELSE IF e.kind = "Variable" THEN typed_variable(e, find_variable(c, e.name), to_type_var(c, e.ty))
    ELSE IF e.kind = "Intrinsic" THEN type_check_intrinsic(e, c, depth)
    ELSE IF e.kind = "TypeConstructor" THEN typed_constructor(e, type_check_exprs(e.args, c, depth))
    ELSE IF e.kind = "ExpressionWithBindings" THEN type_check_bound(e, type_check_bindings(e.bindings, PushScope(c), depth), depth)
    ELSE type_check_then(e, type_check_expr(e.condition, c, depth), depth)

\* the number of arguments an intrinsic takes; any other number is a todo!() panic
IntrinsicArity(name) == IF name \in {"Puts", "Malloc", "SizeOf"} THEN 1 ELSE 2

TIntrinsic(e, ty, args) == [kind |-> "Intrinsic", ty |-> ty, intrinsic |-> e.intrinsic, args |-> args, span |-> e.span]

\* the constraints and the type of an intrinsic whose arguments as are checked,
\* and unify_basic_math_op (lib.rs 990-1003)
typed_intrinsic(e, as) ==
    IF e.intrinsic = "Puts" THEN
         [c |-> unify_expr_return(as.c, string_ty, as.out[1]), out |-> TIntrinsic(e, unit_ty, as.out)]
    ELSE IF e.intrinsic \in {"Add", "Subtract", "Multiply", "Divide"} THEN
         [c |-> unify(unify(as.c, int_ty, expr_ty(as.out[1]), as.out[1].span), int_ty, expr_ty(as.out[2]), as.out[2].span),
          out |-> TIntrinsic(e, int_ty, as.out)]
    ELSE IF e.intrinsic = "Malloc" THEN
         [c |-> unify(as.c, expr_ty(as.out[1]), int_ty, as.out[1].span), out |-> TIntrinsic(e, int_ty, as.out)]
    ELSE IF e.intrinsic = "SizeOf" THEN
         [c |-> as.c, out |-> TIntrinsic(e, int_ty, as.out)]
    ELSE \* Equals
         [c |-> unify(as.c, expr_ty(as.out[1]), expr_ty(as.out[2]), e.span), out |-> TIntrinsic(e, bool_ty, as.out)]

\* impl TypeCheck for SpannedItem<ResolvedIntrinsic> (lib.rs 1005-1117)
type_check_intrinsic(e, c, depth) ==
    IF Len(e.args) # IntrinsicArity(e.intrinsic) THEN [c |-> Panic(c), out |-> TErrorRecovery(e.span)]
    ELSE typed_intrinsic(e, type_check_exprs(e.args, c, depth))

\* mutant: the declaration itself relates its body to its return type
typed_function_of_ChecksReturn(f, params, body, declared_return_type) ==
    [c |-> PopScope(satisfy_expr_return(declared_return_type.c, declared_return_type.out, body.out)),
     out |-> [name |-> f.name, params |-> params, body |-> body.out, return_ty |-> declared_return_type.out]]

\* the Function that Function::type_check returns (lib.rs 1152-1159) and the
\* pop of its scope; body is the checked body
typed_function_of(f, params, body, declared_return_type) ==
    [c |-> PopScope(declared_return_type.c),
     out |-> [name |-> f.name, params |-> params, body |-> body.out, return_ty |-> declared_return_type.out]]

type_check_return_type(f, params, body) == typed_function_of(f, params, body, to_type_var(body.c, f.return_type))

\* the parameters are in scope (lib.rs 1143-1147), the body is checked (1150)
type_check_body(f, c, params, depth) == type_check_return_type(f, params, type_check_expr(f.body, insert_variables(c, params), depth))

type_check_params(f, ps, depth) == type_check_body(f, ps.c, [i \in 1..Len(f.params) |-> <<f.params[i][1], ps.out[i]>>], depth)

\* impl TypeCheck for petr_resolve::Function (lib.rs 1135-1162)
type_check_function(f, c, depth) ==
    IF c.aborted # "no" THEN [c |-> c, out |-> NoFunction]
    ELSE type_check_params(f, to_type_vars(PushScope(c), [i \in 1..Len(f.params) |-> f.params[i][2]]), depth)

\* the function was not typed yet and t is its check (lib.rs 653-655)
insert_typed_function(id, t) ==
    IF t.c.aborted # "no" THEN t
    ELSE [c |-> [t.c EXCEPT !.typed_functions = MapInsert(@, id, t.out)], out |-> t.out]

\* get_function (lib.rs 643-656)
get_function(id, c, depth) ==
    IF c.aborted # "no" THEN [c |-> c, out |-> NoFunction]
    ELSE IF id \in DOMAIN c.typed_functions THEN [c |-> c, out |-> c.typed_functions[id]]
    ELSE IF id \notin 1..Len(c.resolved.functions) THEN [c |-> Panic(c), out |-> NoFunction]
    ELSE IF depth + 1 > StackLimit(c) THEN [c |-> Abort(c), out |-> NoFunction]
    ELSE insert_typed_function(id, type_check_function(c.resolved.functions[id], c, depth + 1))

ArgumentCountMismatch(expected, got, function) == [kind |-> "ArgumentCountMismatch", expected |-> expected, got |-> got, function |-> function]

\* TypedExprKind::FunctionCall (lib.rs 1199-1203, 1236-1240); as are the checked arguments
typed_call(call, func_decl, as) ==
    [kind |-> "FunctionCall", func |-> call.function, args |-> [i \in 1..Len(as.out) |-> <<as.out[i][1], as.out[i][2]>>],
     ty |-> func_decl.return_ty, span |-> call.span]

\* the declaration with its parameters at the new slots m (lib.rs 1213-1234)
insert_monomorphized(call, func_decl, as, signature, m) ==
    [c |-> [m.c EXCEPT !.monomorphized_functions =
                MapInsert(@, signature, [name |-> func_decl.name, params |-> m.out, return_ty |-> func_decl.return_ty,
                                         body |-> replace_var_reference_types(func_decl.body, m.out)])],
     out |-> typed_call(call, func_decl, as)]

\* the signature of the call and the test of the table (lib.rs 1193-1209)
monomorphize(call, func_decl, as, concrete_arg_types) ==
    IF as.c.aborted # "no" \/ AlreadyMonomorphized(as.c, <<call.function, concrete_arg_types>>)
    THEN [c |-> as.c, out |-> typed_call(call, func_decl, as)]
    ELSE insert_monomorphized(call, func_decl, as, <<call.function, concrete_arg_types>>,
                              monomorphize_params(satisfy_expr_return(as.c, func_decl.return_ty, func_decl.body),
                                                  func_decl.params, concrete_arg_types))

type_check_call_args(call, func_decl, as) == monomorphize(call, func_decl, as, [i \in 1..Len(as.out) |-> as.c.types[as.out[i][3]]])

\* the arity check on the fetched declaration g (lib.rs 1173-1191)
type_check_fetched(call, g, depth) ==
    IF g.c.aborted # "no" THEN [c |-> g.c, out |-> TErrorRecovery(call.span)]
    ELSE IF ArityMismatch(call, g.out)
    THEN [c |-> push_error(g.c, WithSpan(ArgumentCountMismatch(Len(g.out.params), Len(call.args), g.out.name.id), call.span)),
          out |-> TErrorRecovery(call.span)]
    ELSE type_check_call_args(call, g.out, type_check_args(call.args, g.out.params, g.c, depth))

\* impl TypeCheck for petr_resolve::FunctionCall (lib.rs 1164-1242)
type_check_call(call, c, depth) ==
    IF c.aborted # "no" THEN [c |-> c, out |-> TErrorRecovery(call.span)]
    ELSE type_check_fetched(call, get_function(call.function, c, depth), depth)

(***************************************************************************)
(* apply_constraints (lib.rs 354-366): `snapshot` is the clone of the      *)
(* constraint list taken at line 355; one step is one iteration of the     *)
(* loop.  A recursion that never returns kills the process.                *)
(***************************************************************************)
ApplyConstraint ==
    /\ pc = "solve"
    /\ snapshot # <<>>
    /\ LET c2 == apply_constraint(tc, Head(snapshot))
       IN IF c2.aborted # "no"
          THEN pc' = c2.aborted /\ tc' = tc /\ snapshot' = snapshot
          ELSE pc' = pc /\ tc' = c2 /\ snapshot' = Tail(snapshot)
    /\ UNCHANGED <<resolved, run, idx, parser, last, binder, cli>>

(***************************************************************************)
(* The drivers: type_check (lib.rs 16-20), TypeChecker::new (lib.rs        *)
(* 516-530) and fully_type_check (lib.rs 297-344).  pc is the position of  *)
(* the process, idx the loop index, run the number of calls of             *)
(* fully_type_check so far.                                                *)
(***************************************************************************)
\* where fully_type_check starts, and where it goes after the types
FirstLoop(rs) == IF Len(rs.types) > 0 THEN "types" ELSE IF Len(rs.functions) > 0 THEN "functions" ELSE "main"
AfterTypes(rs) == IF Len(rs.functions) > 0 THEN "functions" ELSE "main"

\* TypeChecker::new calls fully_type_check (lib.rs 528)
NewCallsFullyTypeCheck ==
    /\ pc = "new"
    /\ pc' = FirstLoop(resolved)
    /\ idx' = 1
    /\ run' = run + 1
    /\ UNCHANGED <<resolved, tc, snapshot, parser, last, binder, cli>>

\* type_check calls fully_type_check on the checker that new returned (lib.rs 18)
TypeCheckCallsFullyTypeCheck ==
    /\ pc = "constructed"
    /\ pc' = FirstLoop(resolved)
    /\ idx' = 1
    /\ run' = run + 1
    /\ UNCHANGED <<resolved, tc, snapshot, parser, last, binder, cli>>

\* the variants of a type declaration, each in a scope of its own (lib.rs 300-311)
RECURSIVE check_variants(_, _)
check_variants(c, variants) ==
    IF variants = <<>> THEN [c |-> c, out |-> <<>>]
    ELSE LET fields == to_type_vars(PushScope(c), Head(variants).fields)
             t == check_variants(PopScope(fields.c), Tail(variants))
         IN [c |-> t.c, out |-> <<[fields |-> fields.out]>> \o t.out]

\* one iteration of the loop over the type declarations (lib.rs 298-321)
CheckTypeDecl ==
    /\ pc = "types"
    /\ idx <= Len(resolved.types)
    /\ LET decl == resolved.types[idx]
           ty == new_variable(tc, decl.name.span)
           variants == check_variants(ty.c, decl.variants)
           c1 == update_type(variants.c, ty.out, UserDefined(decl.name, variants.out, decl.constant_literal_types))
           c2 == [c1 EXCEPT !.type_map = MapInsert(@, TypeKey(idx), ty.out)]
       IN /\ tc' = c2
          /\ pc' = IF c2.aborted # "no" THEN c2.aborted ELSE IF idx = Len(resolved.types) THEN AfterTypes(resolved) ELSE pc
          /\ idx' = IF idx = Len(resolved.types) THEN 1 ELSE idx + 1
    /\ UNCHANGED <<resolved, run, snapshot, parser, last, binder, cli>>

\* the arrow type of the typed function and the two inserts (lib.rs 326-328)
InsertFunction(typed_function, ty) ==
    /\ tc' = [ty.c EXCEPT !.type_map = MapInsert(@, FunctionKey(idx), ty.out),
                          !.typed_functions = MapInsert(@, idx, typed_function.out)]
    /\ pc' = IF idx = Len(resolved.functions) THEN "main" ELSE pc
    /\ idx' = idx + 1

FunctionChecked(typed_function) ==
    IF typed_function.c.aborted # "no"
    THEN tc' = typed_function.c /\ pc' = typed_function.c.aborted /\ idx' = idx
    ELSE InsertFunction(typed_function,
                        arrow_type(typed_function.c, [i \in 1..Len(typed_function.out.params) |-> typed_function.out.params[i][2]]
                                                     \o <<typed_function.out.return_ty>>))

\* one iteration of the loop over the functions (lib.rs 323-329)
CheckFunctionDecl ==
    /\ pc = "functions"
    /\ idx <= Len(resolved.functions)
    /\ FunctionChecked(type_check_function(resolved.functions[idx], tc, 1))
    /\ UNCHANGED <<resolved, run, snapshot, parser, last, binder, cli>>

\* get_main_function (lib.rs 346-348): the first typed function named main, 0 for None
get_main_function(c) ==
    LET mains == {f \in DOMAIN c.typed_functions : c.typed_functions[f].name.id = "main"}
    IN IF mains = {} THEN 0 ELSE CHOOSE f \in mains : \A g \in mains : f <= g

\* apply_constraints starts with the clone of the constraint list (lib.rs 343, 355)
StartSolving(c) ==
    /\ tc' = c
    /\ pc' = IF c.aborted # "no" THEN c.aborted ELSE "solve"
    /\ snapshot' = c.constraints

\* the call of main with no arguments (lib.rs 331-340)
CallMain(id) ==
    IF id = 0 THEN StartSolving(tc)
    ELSE StartSolving(type_check_call(ECall(id, <<>>, tc.typed_functions[id].name.span), tc, 0).c)

CheckMain ==
    /\ pc = "main"
    /\ CallMain(get_main_function(tc))
    /\ UNCHANGED <<resolved, run, idx, parser, last, binder, cli>>

\* apply_constraints and fully_type_check return: to new, which returns the
\* checker to its caller, or to type_check, which returns the errors
FullyTypeCheckReturns ==
    /\ pc = "solve"
    /\ snapshot = <<>>
    /\ run >= 1
    /\ pc' = IF run = 1 THEN "constructed" ELSE "returned"
    /\ UNCHANGED <<resolved, tc, run, idx, snapshot, parser, last, binder, cli>>

(***************************************************************************)
(* The programs the checker is run on.  A program is a sequence of at most *)
(* MaxFuncs function declarations, each drawn from the declarations below  *)
(* (the functions of the tests of lib.rs 1446-1932 and callers of them     *)
(* with every callee), or one of three programs with a type declaration.   *)
(* Occurrences of one name carry the same Identifier value.                *)
(***************************************************************************)
IntLit(n, span) == ELiteral(LitInteger(n), span)
BoolLit(b, span) == ELiteral(LitBoolean(b), span)

GenericA == TyGeneric(Ident("A", 12))
GenericB == TyGeneric(Ident("B", 14))

\* fn bool_literal(a in 'A, b in 'B) returns 'bool true
bool_literal == FunctionDecl(Ident("bool_literal", 10), <<(<<Ident("a", 11), GenericA>>), (<<Ident("b", 13), GenericB>>)>>, TyBool, BoolLit(TRUE, 15))

\* fn foo(x in 'A) returns 'A x
foo == FunctionDecl(Ident("foo", 20), <<(<<Ident("x", 21), GenericA>>)>>, GenericA, EVariable(Ident("x", 21), GenericA, 23))

\* fn add(a in 'int, b in 'int) returns 'int @add(a, b)
add == FunctionDecl(Ident("add", 30), <<(<<Ident("a", 31), TyInteger>>), (<<Ident("b", 32), TyInteger>>)>>, TyInteger,
                    EIntrinsic("Add", <<EVariable(Ident("a", 31), TyInteger, 33), EVariable(Ident("b", 32), TyInteger, 34)>>, 35))

\* fn my_func() returns 'unit @puts(true)
my_func == FunctionDecl(Ident("my_func", 40), <<>>, TyUnit, EIntrinsic("Puts", <<BoolLit(TRUE, 41)>>, 42))

\* fn main() returns 'int ~g(1, 2)
main(g) == FunctionDecl(Ident("main", 50), <<>>, TyInteger, ECall(g, <<IntLit(1, 51), IntLit(2, 52)>>, 53))

\* fn add_five() returns 'int ~g(5)
add_five(g) == FunctionDecl(Ident("add_five", 60), <<>>, TyInteger, ECall(g, <<IntLit(5, 61)>>, 62))

\* fn again() returns 'int ~g()
again(g) == FunctionDecl(Ident("again", 70), <<>>, TyInteger, ECall(g, <<>>, 71))

\* fn my_list() returns 'bool [~g(1, 2), ~g(true, false), ~g(1, 2)]
my_list(g) == FunctionDecl(Ident("my_list", 80), <<>>, TyBool,
                  EList(<<ECall(g, <<IntLit(1, 81), IntLit(2, 82)>>, 83),
                          ECall(g, <<BoolLit(TRUE, 84), BoolLit(FALSE, 85)>>, 86),
                          ECall(g, <<IntLit(1, 87), IntLit(2, 88)>>, 89)>>, 90))

\* fn main() returns 'int let a = ~g(true); ~g(5)
main_with_let(g) == FunctionDecl(Ident("main", 130), <<>>, TyInteger,
                        EBindings(<<(<<Ident("a", 131), ECall(g, <<BoolLit(TRUE, 132)>>, 133)>>)>>, ECall(g, <<IntLit(5, 134)>>, 135), 136))

Declarations == {bool_literal, foo, add, my_func} \cup UNION {{main(g), add_five(g), again(g), my_list(g), main_with_let(g)} : g \in 1..MaxFuncs}

\* the FunctionIds a declaration calls
RECURSIVE Callees(_)
Callees(e) ==
    CASE e.kind = "FunctionCall" -> {e.function} \cup UNION {Callees(e.args[i]) : i \in 1..Len(e.args)}
      [] e.kind \in {"Intrinsic", "TypeConstructor"} -> UNION {Callees(e.args[i]) : i \in 1..Len(e.args)}
      [] e.kind = "List" -> UNION {Callees(e.elements[i]) : i \in 1..Len(e.elements)}
      [] e.kind = "ExpressionWithBindings" -> Callees(e.expression) \cup UNION {Callees(e.bindings[i][2]) : i \in 1..Len(e.bindings)}
      [] e.kind = "If" -> Callees(e.condition) \cup Callees(e.then_branch) \cup Callees(e.else_branch)
      [] OTHER -> {}

\* the resolver only emits calls of functions that exist
WellResolved(fs) == \A i \in 1..Len(fs) : Callees(fs[i].body) \subseteq 1..Len(fs)

DrawnPrograms == {[types |-> <<>>, functions |-> fs] : fs \in {fs \in UNION {[1..n -> Declarations] : n \in 1..MaxFuncs} : WellResolved(fs)}}

\* type OneOrTwo = 1 | 2, with its constructor function
OneOrTwoName == Ident("OneOrTwo", 100)
OneOrTwo == TypeDecl(OneOrTwoName, <<>>, <<LitInteger(1), LitInteger(2)>>)
OneOrTwoParam == TySum(<<TyLiteral(LitInteger(1)), TyLiteral(LitInteger(2))>>)
OneOrTwoConstructor == FunctionDecl(OneOrTwoName, <<(<<OneOrTwoName, OneOrTwoParam>>)>>, TyNamed(1),
                                    ETypeConstructor(1, <<EVariable(OneOrTwoName, OneOrTwoParam, 101)>>, 102))

\* type Pair = a 'int b 'A, with its constructor function
PairName == Ident("Pair", 110)
Pair == TypeDecl(PairName, <<[fields |-> <<TyInteger, GenericA>>]>>, <<>>)
PairConstructor == FunctionDecl(PairName, <<(<<Ident("a", 111), TyInteger>>), (<<Ident("b", 112), GenericA>>)>>, TyNamed(1),
                                ETypeConstructor(1, <<EVariable(Ident("a", 111), TyInteger, 113), EVariable(Ident("b", 112), GenericA, 114)>>, 115))

\* fn main() returns 'OneOrTwo ~OneOrTwo(n)
MakeOneOrTwo(n) == FunctionDecl(Ident("main", 120), <<>>, TyNamed(1), ECall(1, <<IntLit(n, 121)>>, 122))

DeclaredTypePrograms ==
    {[types |-> <<OneOrTwo>>, functions |-> <<OneOrTwoConstructor, MakeOneOrTwo(1)>>],
     [types |-> <<OneOrTwo>>, functions |-> <<OneOrTwoConstructor, MakeOneOrTwo(10)>>],
     [types |-> <<Pair>>, functions |-> <<PairConstructor, main(1)>>]}

Programs == DrawnPrograms \cup DeclaredTypePrograms

Init ==
    /\ resolved \in Programs
    /\ tc = TypeCheckerOf(resolved)
    /\ pc = "new"
    /\ run = 0
    /\ idx = 0
    /\ snapshot = <<>>
    /\ parser = <<>>
    /\ last = <<>> /\ binder = <<>> /\ cli = <<>>

Next ==
    \/ NewCallsFullyTypeCheck
    \/ CheckTypeDecl
    \/ CheckFunctionDecl
    \/ CheckMain
    \/ ApplyConstraint
    \/ FullyTypeCheckReturns
    \/ TypeCheckCallsFullyTypeCheck

Spec == Init /\ [][Next]_vars

(***************************************************************************)
(* The solver on its own: a context of NSlots slots and one constraint     *)
(* between two of them are drawn, and the constraint is applied.  A slot   *)
(* holds a concrete type, its own Infer, or a Ref to an earlier slot (the  *)
(* solver never compares slot numbers, so every context without a cycle of *)
(* Refs is one of these up to renaming of the slots).                      *)
(***************************************************************************)
Lit1 == Literal(LitInteger(1))
Lit2 == Literal(LitInteger(2))
LitTrue == Literal(LitBoolean(TRUE))

ConcreteSlotTypes == {ErrorRecovery, Unit, Integer, Lit1, Lit2, LitTrue, Sum(<<Lit1, Lit2>>), Sum(<<Lit2, LitTrue>>)}

SlotTypes(i) == ConcreteSlotTypes \cup {Infer(i - 1, 0)} \cup {Ref(j) : j \in 1..(i - 1)}

SolverContexts == {ts \in [1..NSlots -> UNION {SlotTypes(i) : i \in 1..NSlots}] : \A i \in 1..NSlots : ts[i] \in SlotTypes(i)}

SolverConstraints == {[kind |-> kd, t1 |-> a, t2 |-> b, span |-> 0] : kd \in {"Unify", "Satisfies"}, a \in 1..NSlots, b \in 1..NSlots}

NoProgram == [types |-> <<>>, functions |-> <<>>]

SolveInit ==
    /\ resolved = NoProgram
    /\ \E ts \in SolverContexts, con \in SolverConstraints :
          /\ tc = [TypeCheckerOf(NoProgram) EXCEPT !.types = ts, !.constraints = <<con>>]
          /\ snapshot = <<con>>
    /\ pc = "solve"
    /\ run = 1
    /\ idx = 0
    /\ parser = <<>>
    /\ last = <<>> /\ binder = <<>> /\ cli = <<>>

SolveNext == ApplyConstraint

SpecSolve == SolveInit /\ [][SolveNext]_vars

(***************************************************************************)
(* Vocabulary of the properties of the solver.                             *)
(***************************************************************************)
\* the slot reached from t by following at most n Refs
RECURSIVE FollowRef(_, _, _)
FollowRef(types, t, n) == IF n = 0 \/ types[t].k # "Ref" THEN t ELSE FollowRef(types, types[t].v, n - 1)

\* the slot t forwards to, and what it holds
Root(types, t) == FollowRef(types, t, Len(types))
Resolved(types, t) == types[Root(types, t)]

\* the constraint the next iteration of apply_constraints applies
Applying == pc = "solve" /\ snapshot # <<>>
Current == Head(snapshot)
NewErrors == SubSeq(tc'.errors, Len(tc.errors) + 1, Len(tc'.errors))

\* a solver run on a drawn context that has applied its constraint
Solved == resolved = NoProgram /\ pc = "solve" /\ snapshot = <<>>
Drawn == tc.constraints[1]

Concrete(ty) == ty.k \notin {"Infer", "Ref", "ErrorRecovery"}
SumOfLiterals(ty) == ty.k = "Sum" /\ \A i \in 1..Len(ty.v) : ty.v[i].k = "Literal"

\* C1: Ref forwarding is acyclic in every reachable type context: following Ref
\* from any slot reaches a non-Ref slot in at most N steps, N the number of slots.
C1_RefForwardingTerminates == \A t \in 1..Len(tc.types) : Resolved(tc.types, t).k # "Ref"

\* a solved context in which the solver wrote a Ref (the drawn ones only point to
\* earlier slots) and some slot forwards through it in two steps
C1_Witness ==
    /\ Solved
    /\ \E t \in 1..Len(tc.types), u \in 1..Len(tc.types) :
          /\ tc.types[t].k = "Ref" /\ tc.types[t].v > t
          /\ tc.types[u] = Ref(t)

\* Section 4.7 of the specification, the Unify table, on the contents the two slots
\* forward to: is the pair covered by a rule that succeeds?
TableUnifyDefined(x, y) ==
    \/ x = y \/ x.k = "ErrorRecovery" \/ y.k = "ErrorRecovery"
    \/ x.k = "Infer" /\ y.k = "Infer"
    \/ x.k = "Sum"
    \/ x.k = "Literal" /\ y.k \in {"Literal", "Sum"}
    \/ x.k = "Literal" /\ LiteralMatchesPrimitive(x.v, y)
    \/ y.k = "Literal" /\ LiteralMatchesPrimitive(y.v, x)
    \/ x.k = "Infer" /\ Concrete(y)
    \/ y.k = "Infer" /\ Concrete(x)
    \/ y.k = "Sum" /\ SeqContains(y.v, x)

\* C2: applying one Unify(t1, t2) emits no error when the pair is covered by a
\* success rule of the Unify table, and exactly one UnificationFailure when not.
C2_UnifyErrorIffNotInTable ==
    [][(Applying /\ Current.kind = "Unify") =>
        IF TableUnifyDefined(Resolved(tc.types, Current.t1), Resolved(tc.types, Current.t2))
        THEN NewErrors = <<>>
        ELSE Len(NewErrors) = 1 /\ NewErrors[1].item.kind = "UnificationFailure"]_vars

\* C3: a Unify with an Infer on one side and a concrete type (Literal and Sum
\* included) on the other, in either order, emits no error and leaves the
\* concrete type in the Infer slot.
C3_InferAdoptsConcrete ==
    [][(Applying /\ Current.kind = "Unify") =>
        LET r1 == Root(tc.types, Current.t1)
            r2 == Root(tc.types, Current.t2)
        IN /\ (tc.types[r1].k = "Infer" /\ Concrete(tc.types[r2])) => (NewErrors = <<>> /\ tc'.types[r1] = tc.types[r2])
           /\ (tc.types[r2].k = "Infer" /\ Concrete(tc.types[r1])) => (NewErrors = <<>> /\ tc'.types[r2] = tc.types[r1])]_vars

EitherSideErrorRecovery(types, con) == Resolved(types, con.t1).k = "ErrorRecovery" \/ Resolved(types, con.t2).k = "ErrorRecovery"

\* C4: ErrorRecovery is absorbing: a Unify or Satisfies with ErrorRecovery on either
\* side (after following Refs) emits no error and modifies no type slot.
C4_ErrorRecoveryAbsorbs ==
    [][(Applying /\ EitherSideErrorRecovery(tc.types, Current)) =>
        (tc'.errors = tc.errors /\ tc'.types = tc.types /\ pc' = pc)]_vars

\* a constraint was applied whose one side reaches ErrorRecovery through a Ref,
\* the other side holding a type that otherwise fails against everything but itself
C4_Witness ==
    /\ Solved
    /\ \E a \in {Drawn.t1, Drawn.t2}, b \in {Drawn.t1, Drawn.t2} :
          /\ tc.types[a].k = "Ref" /\ Resolved(tc.types, a).k = "ErrorRecovery"
          /\ tc.types[b] = Unit

\* C5: Satisfies(Sum(S), Literal(l)), S a sum of literals: no error if l is a
\* member of S, exactly one FailedToSatisfy naming the literal and the sum if
\* not; in both cases no slot is rewritten.
C5_LiteralAgainstSum ==
    [][(Applying /\ Current.kind = "Satisfies") =>
        LET param == Resolved(tc.types, Current.t1)
            arg == Resolved(tc.types, Current.t2)
        IN (SumOfLiterals(param) /\ arg.k = "Literal") =>
              /\ tc'.types = tc.types
              /\ IF SeqContains(param.v, arg) THEN NewErrors = <<>>
                 ELSE /\ Len(NewErrors) = 1
                      /\ NewErrors[1].item = [kind |-> "FailedToSatisfy", a |-> [k |-> "Literal", v |-> arg.v], b |-> [k |-> "sum", v |-> [i \in 1..Len(param.v) |-> [k |-> "Literal", v |-> param.v[i].v]]]]
                      /\ NewErrors[1].span = Current.span]_vars

\* a literal outside the sum was checked against it: one error was recorded
C5_Witness ==
    /\ Solved
    /\ Drawn.kind = "Satisfies"
    /\ SumOfLiterals(Resolved(tc.types, Drawn.t1))
    /\ Resolved(tc.types, Drawn.t2).k = "Literal"
    /\ ~SeqContains(Resolved(tc.types, Drawn.t1).v, Resolved(tc.types, Drawn.t2))
    /\ Len(tc.errors) = 1

(***************************************************************************)
(* Vocabulary of the properties of collection.                             *)
(***************************************************************************)
\* the calls written in an expression
RECURSIVE CallSites(_)
CallSites(e) ==
    CASE e.kind = "FunctionCall" -> {e} \cup UNION {CallSites(e.args[i]) : i \in 1..Len(e.args)}
      [] e.kind \in {"Intrinsic", "TypeConstructor"} -> UNION {CallSites(e.args[i]) : i \in 1..Len(e.args)}
      [] e.kind = "List" -> UNION {CallSites(e.elements[i]) : i \in 1..Len(e.elements)}
      [] e.kind = "ExpressionWithBindings" -> CallSites(e.expression) \cup UNION {CallSites(e.bindings[i][2]) : i \in 1..Len(e.bindings)}
      [] e.kind = "If" -> CallSites(e.condition) \cup CallSites(e.then_branch) \cup CallSites(e.else_branch)
      [] OTHER -> {}

ProgramCallSites == UNION {CallSites(resolved.functions[f].body) : f \in 1..Len(resolved.functions)}

ArityCorrect(call) == Len(call.args) = Len(resolved.functions[call.function].params)

\* the key of a call whose arguments are literals: the slot of a literal
\* argument holds Literal(value) when the key is computed
LiteralArgs(call) == \A i \in 1..Len(call.args) : call.args[i].kind = "Literal"
KeyOf(call) == <<call.function, [i \in 1..Len(call.args) |-> Literal(call.args[i].value)]>>

\* the key of the call of main that fully_type_check makes itself
IsMainKey(key) == key[2] = <<>> /\ resolved.functions[key[1]].name.id = "main" /\ resolved.functions[key[1]].params = <<>>

TableKeys == DOMAIN tc.monomorphized_functions

BodySpans == {resolved.functions[f].body.span : f \in 1..Len(resolved.functions)}

\* the constraints Satisfies(declaredReturn, ty(body)) at the span of a body
ReturnConstraints == {i \in 1..Len(tc.constraints) : tc.constraints[i].kind = "Satisfies" /\ tc.constraints[i].span \in BodySpans}

TableMatchesCalls ==
    /\ \A f \in DOMAIN tc.typed_functions : \A call \in CallSites(resolved.functions[f].body) :
           (ArityCorrect(call) /\ LiteralArgs(call)) => KeyOf(call) \in TableKeys
    /\ \A key \in TableKeys : IsMainKey(key) \/ \E call \in ProgramCallSites : ArityCorrect(call) /\ LiteralArgs(call) /\ KeyOf(call) = key
    /\ Cardinality(ReturnConstraints) = Cardinality(TableKeys)

EntriesKept == \A key \in TableKeys : key \in DOMAIN tc'.monomorphized_functions /\ tc'.monomorphized_functions[key] = tc.monomorphized_functions[key]

\* C6: the monomorphization table holds one specialization for each key
\* (function, concrete argument types) of an arity-correct call that was
\* collected and for no other key; no step replaces an entry that is there;
\* there is one constraint Satisfies(declaredReturn, ty(body)) per entry, so a
\* call whose key is present adds none; calls of one function at different
\* argument types have different keys, each with its entry.
C6_OneSpecializationPerKey == [][EntriesKept /\ TableMatchesCalls']_vars

\* two calls of one function with the same key and a third with another key
\* were collected, and the table holds both keys
C6_Witness ==
    /\ pc = "solve"
    /\ \E a, b, d \in ProgramCallSites :
          /\ a.span # b.span /\ KeyOf(a) = KeyOf(b) /\ KeyOf(a) # KeyOf(d) /\ a.function = d.function
          /\ ArityCorrect(a) /\ ArityCorrect(d)
          /\ {KeyOf(a), KeyOf(d)} \subseteq TableKeys

\* what a call of the wrong arity adds to the checker `fetched`
OnlyTheMismatch(call, fetched) ==
    /\ tc'.errors = Append(fetched.errors,
                           WithSpan(ArgumentCountMismatch(Len(resolved.functions[call.function].params), Len(call.args),
                                                          resolved.functions[call.function].name.id), call.span))
    /\ tc'.constraints = fetched.constraints
    /\ tc'.monomorphized_functions = fetched.monomorphized_functions
    /\ tc'.typed_functions[idx].body = TErrorRecovery(call.span)

\* C7: checking a function without parameters whose body is a call with the
\* wrong number of arguments adds, to the checker as it is once the callee has
\* been fetched, exactly the error ArgumentCountMismatch {expected = number of
\* parameters, got = number of arguments, function = name of the callee} at the
\* span of the call, no constraint and no entry of the table; the typed body
\* is ErrorRecovery at the span of the call.
C7_ArityMismatch ==
    [][(pc = "functions" /\ pc' \in {"functions", "main"}) =>
         LET f == resolved.functions[idx]
             call == f.body
         IN (f.params = <<>> /\ call.kind = "FunctionCall" /\ Len(call.args) # Len(resolved.functions[call.function].params)) =>
               OnlyTheMismatch(call, get_function(call.function, PushScope(tc), 1).c)]_vars

\* a function whose body was a call of the wrong arity has been checked
C7_Witness ==
    \E f \in DOMAIN tc.typed_functions :
        /\ resolved.functions[f].body.kind = "FunctionCall"
        /\ ~ArityCorrect(resolved.functions[f].body)
        /\ tc.typed_functions[f].body.kind = "ErrorRecovery"
        /\ \E i \in 1..Len(tc.errors) : tc.errors[i].item.kind = "ArgumentCountMismatch" /\ tc.errors[i].span = resolved.functions[f].body.span

\* the declared parameters of generic type of the typed functions resolve to
\* the Infer slot made for the generic name
GenericParamsOpen ==
    \A f \in DOMAIN tc.typed_functions : \A i \in 1..Len(resolved.functions[f].params) :
        resolved.functions[f].params[i][2].k = "Generic" =>
            /\ Resolved(tc.types, tc.typed_functions[f].params[i][2]).k = "Infer"
            /\ Resolved(tc.types, tc.typed_functions[f].params[i][2]).v[2] = resolved.functions[f].params[i][2].v.span

\* the spans of the arguments that calls pass for parameters of generic type
GenericArgumentSpans ==
    {call.args[i].span : <<call, i>> \in {<<call, i>> \in ProgramCallSites \X (1..3) :
        /\ ArityCorrect(call) /\ i <= Len(call.args)
        /\ resolved.functions[call.function].params[i][2].k = "Generic"}}

NoErrorAtGenericArguments == \A i \in 1..Len(tc.errors) : tc.errors[i].span \notin GenericArgumentSpans

\* C8: applying Satisfies(paramType, argType) where paramType resolves to an
\* Infer slot rewrites no slot and emits no error; the generic parameters of
\* every typed function keep resolving to their Infer slots; and no error is
\* emitted at an argument passed for a generic parameter.
C8_CallSitesLeaveGenericsOpen ==
    [][/\ (Applying /\ Current.kind = "Satisfies" /\ Resolved(tc.types, Current.t1).k = "Infer") =>
             (tc'.types = tc.types /\ tc'.errors = tc.errors)
       /\ GenericParamsOpen'
       /\ NoErrorAtGenericArguments']_vars

\* C9: type checking never dies of an unbounded recursion.
C9_TypeCheckingTerminates == pc # "stack overflow"

\* C10: when type_check returns, fully_type_check has run once.
C10_CollectedAndSolvedOnce == pc = "returned" => run = 1

\* the errors that applying Unify(t1, t2) to the checker c pushes
UnifyErrors(c, t1, t2) == SubSeq(apply_unify_constraint(c, t1, t2, 0).errors, Len(c.errors) + 1, Len(apply_unify_constraint(c, t1, t2, 0).errors))

\* C11: applying Unify(a, b) emits an error if and only if applying Unify(b, a)
\* to the same context emits an error.
C11_UnifySymmetricInErrors ==
    [][(Applying /\ Current.kind = "Unify" /\ pc' = "solve") =>
           (NewErrors # <<>> <=> UnifyErrors(tc, Current.t2, Current.t1) # <<>>)]_vars

(***************************************************************************)
(* Sum widening: three slots a, b, c hold Literal or Sum-of-Literal types  *)
(* and two Unify constraints are applied, the first between two of the     *)
(* slots and the second between the third slot and one of the first two,   *)
(* in either argument order.                                               *)
(***************************************************************************)
WideningTypes == {Lit1, Lit2, LitTrue, Sum(<<Lit1, Lit2>>), Sum(<<Lit2, LitTrue>>)}

WideningContexts == [1..3 -> WideningTypes]

\* (a with b) then the result with c, (b with c) then a with the result, and
\* every swap of the arguments
WideningPlans ==
    {<<UnifyConstraint(x, y, 0), UnifyConstraint(p, q, 0)>> : <<x, y, p, q>> \in
        {w \in (1..3) \X (1..3) \X (1..3) \X (1..3) :
            /\ {w[1], w[2]} \in {{1, 2}, {2, 3}} /\ w[1] # w[2]
            /\ \/ w[3] \notin {w[1], w[2]} /\ w[4] \in {w[1], w[2]}
               \/ w[4] \notin {w[1], w[2]} /\ w[3] \in {w[1], w[2]}}}

WidenInit ==
    /\ resolved = NoProgram
    /\ \E ts \in WideningContexts, plan \in WideningPlans :
          /\ tc = [TypeCheckerOf(NoProgram) EXCEPT !.types = ts, !.constraints = plan]
          /\ snapshot = plan
          /\ last = [call |-> "widen", types |-> ts] /\ binder = <<>> /\ cli = <<>>
    /\ pc = "solve"
    /\ run = 1
    /\ idx = 0
    /\ parser = <<>>

SpecWiden == WidenInit /\ [][SolveNext]_vars

\* the members of a Literal or of a Sum, as a set
Members(ty) == IF ty.k = "Sum" THEN {ty.v[i] : i \in 1..Len(ty.v)} ELSE {ty}

\* what the slot unified by a plan holds once the plan has been applied to ts
Widened(ts, plan) ==
    Resolved(apply_constraint(apply_constraint([TypeCheckerOf(NoProgram) EXCEPT !.types = ts], plan[1]), plan[2]).types, plan[2].t1)

Widening == resolved = NoProgram /\ last # <<>> /\ last.call = "widen"
WideningDone == Widening /\ pc = "solve" /\ snapshot = <<>>

MaxOffset == 3
UsizeBits == 16

\* usize arithmetic: the width of the model's usize is UsizeBits
UsizeModulus == 2 ^ UsizeBits

Span(source, offset, length) == [source |-> source, offset |-> offset, length |-> length]

\* the outcomes of the subtraction a - b on usize: the difference, or on
\* underflow a panic (overflow checks on) or the wrapped value (checks off)
UsizeSub(a, b) == IF a >= b THEN {[panic |-> FALSE, v |-> a - b]} ELSE {[panic |-> TRUE, v |-> 0], [panic |-> FALSE, v |-> (a - b) % UsizeModulus]}

\* what an operation on spans comes to: a span, or a panic (a failed assertion or an overflow check)
Returned(span) == [res |-> "Ok", span |-> span]
Panicked == [res |-> "panic"]

\* let end = std::cmp::max(first_end, second_end) (sources.rs 192)
JoinEnd(first_end, second_end) == IF first_end >= second_end THEN first_end ELSE second_end

\* Span::join (sources.rs 178-200): the set of outcomes
join(self, after_span) ==
    IF self.source # after_span.source THEN {Panicked}
    ELSE LET first_span == IF self.offset < after_span.offset THEN self ELSE after_span
             second_span == IF self.offset < after_span.offset THEN after_span ELSE self
         IN {IF length.panic THEN Panicked ELSE Returned(Span(self.source, first_span.offset, length.v)) :
                length \in UsizeSub(JoinEnd(first_span.length + first_span.offset, second_span.length + second_span.offset),
                                    first_span.offset)}

\* Span::hi_to_hi (sources.rs 203-214): the set of outcomes
hi_to_hi(self, after_span) ==
    IF self.source # after_span.source THEN {Panicked}
    ELSE {IF length.panic THEN Panicked ELSE Returned(Span(self.source, self.offset + self.length, length.v)) :
             length \in UsizeSub(after_span.offset + after_span.length, self.offset + self.length)}

\* Span::extend (sources.rs 217-227): the set of outcomes
extend(self, hi) ==
    IF ~(hi >= self.offset) THEN {Panicked}
    ELSE {Returned(Span(self.source, self.offset, hi - self.offset))}

\* Span::zero_length (sources.rs 237-242)
zero_length(self) == Span(self.source, self.offset, 0)

\* the pairs of spans the operations are applied to
DrawnSpans == {Span(src, offset, length) : src \in 1..2, offset \in 0..MaxOffset, length \in 0..MaxOffset}

SpanInit ==
    /\ resolved = NoProgram /\ tc = <<>> /\ pc = "spans" /\ run = 0 /\ idx = 0 /\ snapshot = <<>> /\ parser = <<>>
    /\ \E a, b \in DrawnSpans : last = [call |-> "new", self |-> a, after_span |-> b, ret |-> [res |-> "none"]] /\ binder = <<>> /\ cli = <<>>

Join ==
    /\ pc = "spans"
    /\ \E ret \in join(last.self, last.after_span) : last' = [last EXCEPT !.call = "join", !.ret = ret]
    /\ UNCHANGED <<resolved, tc, pc, run, idx, snapshot, parser, binder, cli>>

HiToHi ==
    /\ pc = "spans"
    /\ \E ret \in hi_to_hi(last.self, last.after_span) : last' = [last EXCEPT !.call = "hi_to_hi", !.ret = ret]
    /\ UNCHANGED <<resolved, tc, pc, run, idx, snapshot, parser, binder, cli>>

SpanNext == Join \/ HiToHi

SpecSpan == SpanInit /\ [][SpanNext]_vars

SameSource == last.self.source = last.after_span.source
Start(span) == span.offset
End(span) == span.offset + span.length
Min(a, b) == IF a <= b THEN a ELSE b
Max(a, b) == IF a >= b THEN a ELSE b

\* C17: join and hi_to_hi of two spans of one source return a span (no panic,
\* no wrapped length: the end is the end the operation is to reach), and the
\* span join returns starts at the smaller start and ends at the larger end.
C17_SpanJoining ==
    (pc = "spans" /\ last.call \in {"join", "hi_to_hi"} /\ SameSource) =>
        /\ last.ret.res = "Ok"
        /\ last.call = "join" =>
              /\ Start(last.ret.span) = Min(Start(last.self), Start(last.after_span))
              /\ End(last.ret.span) = Max(End(last.self), End(last.after_span))
        /\ last.call = "hi_to_hi" =>
              /\ Start(last.ret.span) = End(last.self)
              /\ End(last.ret.span) = End(last.after_span)

(***************************************************************************)
(* The lexer (swim-parse/src/parser/lexer.rs): one generated tokenizer per *)
(* source and the id of the current source.  The tokenizer of a source is  *)
(* its cursor [start, end], counted in lexemes: the span of the token it   *)
(* matched last.                                                           *)
(***************************************************************************)
MaxSources == 2
MaxTextLen == 2

\* the number of bytes of a lexeme
Width(kind) == IF kind = "Identifier" THEN 2 ELSE IF kind = "Comment" THEN 4 ELSE 1

\* the byte offset of the end of the n-th lexeme of a text
RECURSIVE Offset(_, _)
Offset(text, n) == IF n = 0 THEN 0 ELSE Offset(text, n - 1) + Width(text[n])

\* #[logos(skip r"[ \t]+")] (lexer.rs 12): the white space after the n-th lexeme is skipped
RECURSIVE SkipTrivia(_, _)
SkipTrivia(text, n) == IF n < Len(text) /\ text[n + 1] = "Space" THEN SkipTrivia(text, n + 1) ELSE n

\* logos::Lexer::next on the tokenizer of one source (lexer.rs 122): None at
\* the end of the text, otherwise the token matched, "Bad" for Some(Err(_))
logos_matched(text, n) ==
    IF n = Len(text) THEN [cursor |-> [start |-> n, end |-> n], out |-> "None"]
    ELSE [cursor |-> [start |-> n, end |-> n + 1], out |-> text[n + 1]]

logos_next(text, cursor) == logos_matched(text, SkipTrivia(text, cursor.end))

\* Lexer::new (lexer.rs 97-108)
Lexer_new(sources) == [sources |-> sources, source |-> 1, cursors |-> [i \in 1..Len(sources) |-> [start |-> 0, end |-> 0]]]

current_lexer(lx) == lx.cursors[lx.source]

\* Lexer::span (lexer.rs 110-112)
lexer_span(lx) ==
    Span(lx.source, Offset(lx.sources[lx.source], current_lexer(lx).start),
         Offset(lx.sources[lx.source], current_lexer(lx).end) - Offset(lx.sources[lx.source], current_lexer(lx).start))

\* mutant: the last source is never entered
advance_lexer_StopsEarly(lx) ==
    IF lx.source >= Len(lx.sources) - 1 THEN [lx |-> lx, out |-> "None"]
    ELSE [lx |-> [lx EXCEPT !.source = @ + 1], out |-> "Some"]

\* Lexer::advance_lexer (lexer.rs 142-148)
advance_lexer(lx) ==
    IF lx.source = Len(lx.sources) THEN [lx |-> lx, out |-> "None"]
    ELSE [lx |-> [lx EXCEPT !.source = @ + 1], out |-> "Some"]

RECURSIVE lexer_advance(_)

\* None => match self.advance_lexer() (lexer.rs 123-126)
lexer_at_end(pre_advance_span, next_lexer) ==
    IF next_lexer.out = "Some" THEN lexer_advance(next_lexer.lx)
    ELSE [lx |-> next_lexer.lx, tok |-> WithSpan("Eof", pre_advance_span)]

\* match current_lexer.next() (lexer.rs 122-130); the token "Bad" is the
\* Some(Err(_)) that tok.expect does not accept
lexer_matched(lx, pre_advance_span, next) ==
    IF next.out = "None" THEN lexer_at_end(pre_advance_span, advance_lexer([lx EXCEPT !.cursors[lx.source] = next.cursor]))
    ELSE [lx |-> [lx EXCEPT !.cursors[lx.source] = next.cursor],
          tok |-> WithSpan(next.out, lexer_span([lx EXCEPT !.cursors[lx.source] = next.cursor]))]

\* Lexer::advance (lexer.rs 118-131)
lexer_advance(lx) == lexer_matched(lx, lexer_span(lx), logos_next(lx.sources[lx.source], current_lexer(lx)))

\* the texts and the lists of sources the lexer is run on
TextsOver(kinds) == UNION {[1..n -> kinds] : n \in 0..MaxTextLen}
SourcesOver(kinds) == UNION {[1..n -> TextsOver(kinds)] : n \in 1..MaxSources}

LexInit ==
    /\ resolved = NoProgram /\ tc = <<>> /\ pc = "lex" /\ run = 0 /\ idx = 0 /\ snapshot = <<>>
    /\ \E sources \in SourcesOver({"Identifier", "Integer", "Space", "Bad"}) : parser = [lexer |-> Lexer_new(sources)]
    /\ last = [call |-> "new", ret |-> WithSpan("None", Span(1, 0, 0))] /\ binder = <<>> /\ cli = <<>>

\* one call of Lexer::advance; tok.expect("TODO: handle lexer failure") panics
LexerAdvances(advanced) ==
    IF advanced.tok.item = "Bad"
    THEN pc' = "panic" /\ UNCHANGED <<parser, last, binder, cli>>
    ELSE pc' = pc /\ parser' = [lexer |-> advanced.lx] /\ last' = [call |-> "advance", ret |-> advanced.tok]

LexerAdvance ==
    /\ pc = "lex"
    /\ LexerAdvances(lexer_advance(parser.lexer))
    /\ UNCHANGED <<resolved, tc, run, idx, snapshot, binder, cli>>

LexNext == LexerAdvance

SpecLex == LexInit /\ [][LexNext]_vars

\* the tokens of a text after its n-th lexeme, with their spans
RECURSIVE TokensFrom(_, _, _)
TokensFrom(text, src, n) ==
    IF n >= Len(text) THEN <<>>
    ELSE (IF text[n + 1] = "Space" THEN <<>> ELSE <<WithSpan(text[n + 1], Span(src, Offset(text, n), Width(text[n + 1])))>>)
         \o TokensFrom(text, src, n + 1)

\* the tokens the lexer has not yielded: those of the source src after its
\* cursor, then those of the sources after it
RECURSIVE PendingFrom(_, _)
PendingFrom(lx, src) ==
    IF src > Len(lx.sources) THEN <<>>
    ELSE TokensFrom(lx.sources[src], src, lx.cursors[src].end) \o PendingFrom(lx, src + 1)

Pending(lx) == PendingFrom(lx, lx.source)

Exhausted(lx) == lx.source = Len(lx.sources) /\ Pending(lx) = <<>>

\* C19: an advance() of the lexer never moves to an earlier source and never
\* yields a token of an earlier source than the one before; it yields the
\* first token not yet yielded, in the order of the sources, and Eof when
\* there is none; once the last source is exhausted it yields Eof, leaves the
\* current source as it is, and the lexer stays exhausted.
C19_SourcesInOrderThenEof ==
    [][(pc = "lex" /\ pc' = "lex") =>
         /\ parser'.lexer.source >= parser.lexer.source
         /\ last'.ret.span.source >= last.ret.span.source
         /\ IF Pending(parser.lexer) # <<>>
            THEN last'.ret = Head(Pending(parser.lexer)) /\ Pending(parser'.lexer) = Tail(Pending(parser.lexer))
            ELSE last'.ret.item = "Eof" /\ Pending(parser'.lexer) = <<>>
         /\ Exhausted(parser.lexer) =>
               (last'.ret.item = "Eof" /\ parser'.lexer.source = parser.lexer.source /\ Exhausted(parser'.lexer))]_vars

\* the tokens of two sources were yielded, then Eof from the exhausted last source
C19_Witness ==
    /\ pc = "lex"
    /\ parser.lexer.sources = <<(<<"Identifier">>), (<<"Space", "Integer">>)>>
    /\ parser.lexer.source = 2
    /\ Exhausted(parser.lexer)
    /\ last.call = "advance" /\ last.ret.item = "Eof"

(***************************************************************************)
(* The parser (petr-parse/src/parser.rs).  An Option is a sequence of at   *)
(* most one element: <<>> is None and <<x>> is Some(x).  The parser's      *)
(* lexer is the lexer above, except that an unrecognized code point is     *)
(* returned as Err(span) instead of a panic: the token "Bad" at the span   *)
(* of the code point, with the tokenizer past it.  The closures and the    *)
(* element parsers handed to the combinators are inputs: a Tokens parser   *)
(* expects its tokens one after the other with Parser::token, giving up at *)
(* the first None when it uses `?`, and then returns Some or None.         *)
(***************************************************************************)
\* ParseErrorKind (parser.rs 78-101)
ExpectedToken(expected, found) == [e |-> "ExpectedToken", expected |-> expected, found |-> found]
InternalSpanError(after, before) == [e |-> "InternalSpanError", after |-> after, before |-> before]
LexerError == [e |-> "LexerError"]

\* Parser::new (parser.rs 187-232)
Parser_new(sources) ==
    [lexer |-> Lexer_new(sources), errors |-> <<>>, comments |-> <<>>, peek |-> <<>>, source_map |-> sources,
     help |-> <<>>, panic |-> "no"]

\* Parser::push_error (parser.rs 140-160): the help text is the rendering of the help stack
parser_push_error(p, err) == [p EXCEPT !.errors = Append(@, WithSpan([kind |-> err.item, help |-> p.help], err.span))]

\* push_help and pop_help (parser.rs 465-474)
push_help(p, arg) == [p EXCEPT !.help = Append(@, arg)]
pop_help(p) == [p EXCEPT !.help = IF @ = <<>> THEN <<>> ELSE SubSeq(@, 1, Len(@) - 1)]

\* Lexer::advance of the parser's lexer: that of the lexer above, an
\* unrecognized code point returned as Err(span), the token "Bad" here, with
\* the tokenizer one code point further
petr_lexer_advance(lx) == lexer_advance(lx)

RECURSIVE advance(_)
RECURSIVE spanned_parse(_, _)

\* self.comments.push(comment) (parser.rs 373-375)
push_comment(r) == IF r.out = <<>> THEN r.p ELSE [r.p EXCEPT !.comments = Append(@, r.out[1])]

\* match self.lexer.advance() and match *next_tok.item() (parser.rs 362-379)
advance_lexed(p, tok) ==
    IF tok.item = "Bad" THEN [p |-> parser_push_error(p, WithSpan(LexerError, tok.span)), out |-> WithSpan("Eof", tok.span)]
    ELSE IF tok.item = "Newline" THEN advance(p)
    ELSE IF tok.item = "Comment" THEN advance(push_comment(spanned_parse([kind |-> "Comment"], p)))
    ELSE [p |-> p, out |-> tok]

advance_lexer_result(p, advanced) == advance_lexed([p EXCEPT !.lexer = advanced.lx], advanced.tok)

\* Parser::advance (parser.rs 358-380)
advance(p) ==
    IF p.peek # <<>> THEN [p |-> [p EXCEPT !.peek = <<>>], out |-> p.peek[1]]
    ELSE advance_lexer_result(p, petr_lexer_advance(p.lexer))

\* mutant: the token is handed out but not kept
fill_peek_Forgets(r) == [p |-> r.p, out |-> r.out]

\* self.peek = Some(item) (parser.rs 181-183)
fill_peek(r) == [p |-> [r.p EXCEPT !.peek = <<r.out>>], out |-> r.out]

\* Parser::peek (parser.rs 177-185)
peek(p) == IF p.peek # <<>> THEN [p |-> p, out |-> p.peek[1]] ELSE fill_peek(advance(p))

Some(r) == [p |-> r.p, out |-> <<r.out>>]
None(p) == [p |-> p, out |-> <<>>]

\* Parser::try_token (parser.rs 383-393)
try_token_peeked(tok, r) == IF r.out.item = tok THEN Some(advance(r.p)) ELSE None(r.p)
try_token(tok, p) == try_token_peeked(tok, peek(p))

\* mutant: the token that does not match is consumed
token_mismatch_Consumes(tok, r) ==
    None([parser_push_error(r.p, WithSpan(ExpectedToken(tok, r.out.item), lexer_span(r.p.lexer))) EXCEPT !.peek = <<>>])

\* the else branch of Parser::token (parser.rs 417-421)
token_mismatch(tok, r) == None(parser_push_error(r.p, WithSpan(ExpectedToken(tok, r.out.item), lexer_span(r.p.lexer))))

token_peeked(tok, r) == IF r.out.item = tok THEN Some(advance(r.p)) ELSE token_mismatch(tok, r)

\* with_help (parser.rs 451-463): the help is popped once the closure has returned
helped(r) == [p |-> pop_help(r.p), out |-> r.out]

\* Parser::token (parser.rs 409-423)
token(tok, p) == helped(token_peeked(tok, peek(push_help(p, <<"while parsing token", tok>>))))

\* what Comment::parse returns: the comment under the lexer, no token consumed
parse_Comment(p) == [p |-> p, out |-> <<[comment |-> lexer_span(p.lexer)]>>]

\* a closure |p| { p.token(t1)?; p.token(t2)?; then }, the `?` present or not
RECURSIVE parse_Tokens(_, _, _, _)
parse_Tokens_next(T, r, i, items) ==
    IF r.out = <<>> /\ T.question THEN None(r.p) ELSE parse_Tokens(T, r.p, i + 1, items \o r.out)

parse_Tokens(T, p, i, items) ==
    IF i > Len(T.expect) THEN [p |-> p, out |-> IF T.then = "Some" THEN <<items>> ELSE <<>>]
    ELSE parse_Tokens_next(T, token(T.expect[i], p), i, items)

\* P::parse(p) for the parsers of this model
parse(T, p) == IF T.kind = "Comment" THEN parse_Comment(p) ELSE parse_Tokens(T, p, 1, <<>>)

\* the usize arithmetic of the build: an overflow or a failed assertion ends
\* the parse, and the parser records it
span_of(p, outcomes) ==
    IF \E o \in outcomes : o.res = "panic"
    THEN [p |-> [p EXCEPT !.panic = IF Cardinality(outcomes) = 1 THEN "assertion" ELSE "overflow"], out |-> <<>>]
    ELSE [p |-> p, out |-> <<(CHOOSE o \in outcomes : TRUE).span>>]

\* Some(before_span.hi_to_hi(after_span).with_item(result)) (parser.rs 557-558)
spanned_item(result, r) == IF r.out = <<>> THEN r ELSE [p |-> r.p, out |-> <<WithSpan(result, r.out[1])>>]

spanned_hi_to_hi(result, before_span, r) ==
    IF r.out = <<>> THEN r ELSE spanned_item(result, span_of(r.p, hi_to_hi(before_span, r.out[1])))

\* mutant: a span that ends in a later source is joined as it is
spanned_after_AnySource(p, result, before_span, after_span) ==
    IF after_span.source # before_span.source /\ after_span.offset = 0
    THEN spanned_hi_to_hi(result, before_span, [p |-> p, out |-> <<after_span>>])
    ELSE IF after_span.source # before_span.source
    THEN None(parser_push_error(p, WithSpan(InternalSpanError(after_span, before_span), before_span)))
    ELSE spanned_hi_to_hi(result, before_span, [p |-> p, out |-> <<after_span>>])

\* the two cases of a span that ends in another source (parser.rs 535-554)
spanned_after(p, result, before_span, after_span) ==
    IF after_span.source # before_span.source /\ after_span.offset = 0
    THEN spanned_hi_to_hi(result, before_span,
                          span_of(p, extend(before_span, Offset(p.source_map[before_span.source], Len(p.source_map[before_span.source])))))
    ELSE IF after_span.source # before_span.source
    THEN None(parser_push_error(p, WithSpan(InternalSpanError(after_span, before_span), before_span)))
    ELSE spanned_hi_to_hi(result, before_span, [p |-> p, out |-> <<after_span>>])

spanned_parsed(before_span, r) ==
    IF r.out = <<>> THEN r ELSE spanned_after(r.p, r.out[1], before_span, lexer_span(r.p.lexer))

\* <SpannedItem<T> as Parse>::parse (parser.rs 528-559)
spanned_parse(T, p) == spanned_parsed(lexer_span(p.lexer), parse(T, p))

\* Parser::checkpoint (parser.rs 496-502)
checkpoint(p) == [errors |-> Len(p.errors), lexer |-> p.lexer, peek |-> p.peek]

\* mutant: the peek buffer is left as the closure left it
restore_checkpoint_KeepsPeek(p, cp) ==
    [p |-> [p EXCEPT !.lexer = cp.lexer, !.errors = SubSeq(@, 1, cp.errors)],
     out |-> SubSeq(p.errors, cp.errors + 1, Len(p.errors))]

\* Parser::restore_checkpoint (parser.rs 504-511)
restore_checkpoint(p, cp) ==
    [p |-> [p EXCEPT !.lexer = cp.lexer, !.peek = cp.peek, !.errors = SubSeq(@, 1, cp.errors)],
     out |-> SubSeq(p.errors, cp.errors + 1, Len(p.errors))]

Ok(x) == [res |-> "Ok", v |-> <<x>>, errs |-> <<>>]
Err(errs) == [res |-> "Err", v |-> <<>>, errs |-> errs]

backtracked(r) == [p |-> r.p, out |-> Err(r.out)]

with_backtrack_result(cp, r) ==
    IF r.out # <<>> THEN [p |-> r.p, out |-> Ok(r.out[1])] ELSE backtracked(restore_checkpoint(r.p, cp))

\* Parser::with_backtrack (parser.rs 481-494); a closure that panics unwinds through it
with_backtrack(f, p) == with_backtrack_result(checkpoint(p), parse(f, p))

\* for err in errs { self.errors.push(err) } (parser.rs 349-351)
push_errs(p, errs) == [p EXCEPT !.errors = @ \o errs]

\* mutant: the errors of the failed first element are dropped
sequence_end_DropsErrors(p, buf, errs) == IF buf = <<>> THEN None(p) ELSE [p |-> p, out |-> <<buf>>]

\* if buf.is_empty() (parser.rs 348-355)
sequence_end(p, buf, errs) == IF buf = <<>> THEN None(push_errs(p, errs)) ELSE [p |-> p, out |-> <<buf>>]

RECURSIVE sequence_loop(_, _, _, _)
sequence_separated(P, separator, r, buf) ==
    IF r.out.item = separator THEN sequence_loop(P, separator, advance(r.p).p, buf) ELSE sequence_end(r.p, buf, <<>>)

\* mutant: the errors of every failed element are kept
sequence_item_KeepsErrors(P, separator, r, buf) ==
    IF r.out.res = "Ok" THEN sequence_separated(P, separator, peek(r.p), buf \o r.out.v)
    ELSE sequence_end(push_errs(r.p, r.out.errs), buf, r.out.errs)

sequence_item(P, separator, r, buf) ==
    IF r.out.res = "Ok" THEN sequence_separated(P, separator, peek(r.p), buf \o r.out.v)
    ELSE sequence_end(r.p, buf, r.out.errs)

\* the loop of Parser::sequence (parser.rs 334-347)
sequence_loop(P, separator, p, buf) == sequence_item(P, separator, with_backtrack(P, p), buf)

\* Parser::sequence (parser.rs 329-356)
sequence(P, separator, p) == sequence_loop(P, separator, p, <<>>)

(***************************************************************************)
(* The parser as a state machine: a parser over drawn sources, and one     *)
(* action per call of its interface.  `last` keeps the names of the calls  *)
(* made so far, the arguments of the last one, the parser it was made on   *)
(* and what it returned.  A behaviour is up to MaxCalls calls, at most one  *)
(* of them a call of a combinator (with_backtrack, sequence, the parse of  *)
(* a SpannedItem), the others calls of peek, advance, token and try_token. *)
(***************************************************************************)
MaxCalls == 3
MaxExpect == 2

ParserKinds == {"Identifier", "Comma", "Newline", "Comment", "Bad"}
LaterKinds == {"Identifier", "Comma"}
ExpectableTokens == {"Identifier", "Comma"}

\* the sources of a parser: any text first, then texts of plain tokens
ParserSources == {sources \in SourcesOver(ParserKinds) : \A i \in 2..Len(sources) : sources[i] \in TextsOver(LaterKinds)}

\* the closures: up to MaxExpect identifiers expected, with or without `?`
Closures ==
    {[kind |-> "Tokens", expect |-> [i \in 1..n |-> "Identifier"], question |-> q, then |-> t] :
        n \in 0..MaxExpect, q \in BOOLEAN, t \in {"Some", "None"}}
\* the element parsers of a sequence: closures that return Some once every token was there
ElementParsers == {P \in Closures : P.question /\ P.then = "Some"}
NoClosure == [kind |-> "None", expect |-> <<>>, question |-> FALSE, then |-> "None"]

ParseInit ==
    /\ resolved = NoProgram /\ tc = <<>> /\ pc = "parse" /\ run = 0 /\ idx = 0 /\ snapshot = <<>>
    /\ \E sources \in ParserSources : parser = Parser_new(sources)
    /\ last = [calls |-> <<>>, tok |-> "-", f |-> NoClosure, before |-> <<>>, ret |-> [new |-> TRUE]] /\ binder = <<>> /\ cli = <<>>

\* the call returns, or the build's overflow check or an assertion ends the program
Called(call, tok, f, p, ret) ==
    /\ parser' = p
    /\ last' = [calls |-> Append(last.calls, call), tok |-> tok, f |-> f, before |-> <<parser>>, ret |-> ret]
    /\ pc' \in (IF p.panic = "no" THEN {pc} ELSE IF p.panic = "assertion" THEN {"panic"} ELSE {"panic", "wrapped"})
    /\ UNCHANGED <<resolved, tc, run, idx, snapshot, binder, cli>>

Combinators == {"with_backtrack", "sequence", "spanned_parse"}
Callable == pc = "parse" /\ Len(last.calls) < MaxCalls
CombinatorCallable == Callable /\ \A i \in 1..Len(last.calls) : last.calls[i] \notin Combinators

PeekReturns(r) == Called("peek", "-", NoClosure, r.p, [token |-> r.out])
Peek == Callable /\ PeekReturns(peek(parser))

AdvanceReturns(r) == Called("advance", "-", NoClosure, r.p, [token |-> r.out])
Advance == Callable /\ AdvanceReturns(advance(parser))

TokenReturns(tok, r) == Called("token", tok, NoClosure, r.p, [option |-> r.out])
Token == Callable /\ \E tok \in ExpectableTokens : TokenReturns(tok, token(tok, parser))

TryTokenReturns(tok, r) == Called("try_token", tok, NoClosure, r.p, [option |-> r.out])
TryToken == Callable /\ \E tok \in ExpectableTokens : TryTokenReturns(tok, try_token(tok, parser))

WithBacktrackReturns(f, r) == Called("with_backtrack", "-", f, r.p, [result |-> r.out])
WithBacktrack == CombinatorCallable /\ \E f \in Closures : WithBacktrackReturns(f, with_backtrack(f, parser))

SequenceReturns(P, separator, r) == Called("sequence", separator, P, r.p, [list |-> r.out])
Sequence == CombinatorCallable /\ \E P \in ElementParsers : SequenceReturns(P, "Comma", sequence(P, "Comma", parser))

SpannedParseReturns(T, r) == Called("spanned_parse", "-", T, r.p, [spanned |-> r.out])
SpannedParse == CombinatorCallable /\ \E T \in Closures : SpannedParseReturns(T, spanned_parse(T, parser))

ParseNext == Peek \/ Advance \/ Token \/ TryToken \/ WithBacktrack \/ Sequence \/ SpannedParse

SpecParse == ParseInit /\ [][ParseNext]_vars

\* vocabulary of the parser claims
Calls(name) == pc = "parse" /\ Len(last'.calls) = Len(last.calls) + 1 /\ last'.calls[Len(last'.calls)] = name
Called_(name) == last.calls # <<>> /\ last.calls[Len(last.calls)] = name
Before == last.before[1]
Pushed(before, after) == SubSeq(after.errors, Len(before.errors) + 1, Len(after.errors))
SameTokenState(p, q) == p.lexer = q.lexer /\ p.peek = q.peek
SameParseState(p, q) == SameTokenState(p, q) /\ p.errors = q.errors

\* C13: with_backtrack(f), f returning None, leaves the lexer, the peek
\* buffer and the error list as they were at the call and returns Err of the
\* errors f pushed, in order; f returning Some(x), it returns Ok(x) and
\* leaves the lexer, the peek buffer and the error list as f left them.
C13_Backtracked(before, ran, after, result) ==
    IF ran.out = <<>>
    THEN SameParseState(after, before) /\ result = Err(Pushed(before, ran.p))
         /\ SubSeq(ran.p.errors, 1, Len(before.errors)) = before.errors
    ELSE SameParseState(after, ran.p) /\ result = Ok(ran.out[1])

C13_WithBacktrack ==
    [][Calls("with_backtrack") => C13_Backtracked(parser, parse(last'.f, parser), parser', last'.ret.result)]_vars

\* a closure that consumed a token, filled the peek buffer and pushed an error before returning None
C13_Ran(before, ran) ==
    ran.out = <<>> /\ ran.p.lexer # before.lexer /\ ran.p.peek # before.peek /\ Pushed(before, ran.p) # <<>> /\ before.errors # <<>>

C13_Witness == Called_("with_backtrack") /\ C13_Ran(Before, parse(last.f, Before)) /\ last.ret.result.res = "Err"

\* the tokens of a list of elements, one after the other
RECURSIVE Flatten(_)
Flatten(buf) == IF buf = <<>> THEN <<>> ELSE buf[1] \o Flatten(Tail(buf))

\* tokens in the order of the input: by source, then by offset
InInputOrder(toks) ==
    \A i \in 1..Len(toks) - 1 :
        \/ toks[i].span.source < toks[i + 1].span.source
        \/ toks[i].span.source = toks[i + 1].span.source /\ toks[i].span.offset < toks[i + 1].span.offset

\* C14: sequence<P>(separator) returns None exactly when the parse of the
\* first element fails; then the lexer and the peek buffer are as before the
\* call and the error list has gained exactly the errors of that parse;
\* otherwise it returns Some of a non-empty list that starts with the first
\* element, its tokens in the order of the input.
C14_Sequenced(before, first, after, list) ==
    /\ list = <<>> <=> first.out = <<>>
    /\ list = <<>> => SameTokenState(after, before) /\ after.errors = before.errors \o Pushed(before, first.p)
    /\ list # <<>> => list[1] # <<>> /\ list[1][1] = first.out[1] /\ InInputOrder(Flatten(list[1]))

C14_Sequence == [][Calls("sequence") => C14_Sequenced(parser, parse(last'.f, parser), parser', last'.ret.list)]_vars

\* a first element that failed after it had consumed a token and pushed an error
C14_Witness ==
    /\ Called_("sequence") /\ last.ret.list = <<>>
    /\ C13_Ran(Before, parse(last.f, Before))

\* a sequence of two elements
C14_TwoElements == Called_("sequence") /\ last.ret.list # <<>> /\ Len(last.ret.list[1]) = 2 /\ Len(Flatten(last.ret.list[1])) >= 2

\* C15: peek() returns a token that is neither Newline nor Comment and keeps
\* it in the peek buffer; a peek() that follows a peek() returns the same
\* token and changes neither the lexer, the error list nor the comment list;
\* the advance() that follows a peek() returns that token and empties the
\* peek buffer.
C15_Peeked(after, tok) == tok.item \notin {"Newline", "Comment"} /\ after.peek = <<tok>>
C15_PeekedAgain(before, after, first, tok) ==
    tok = first /\ after.lexer = before.lexer /\ after.errors = before.errors /\ after.comments = before.comments
C15_Advanced(after, first, tok) == tok = first /\ after.peek = <<>>

C15_PeekIdempotent ==
    [][/\ Calls("peek") => C15_Peeked(parser', last'.ret.token)
       /\ Calls("peek") /\ Called_("peek") => C15_PeekedAgain(parser, parser', last.ret.token, last'.ret.token)
       /\ Calls("advance") /\ Called_("peek") => C15_Advanced(parser', last.ret.token, last'.ret.token)]_vars

\* two peeks and an advance, the first peek having skipped a newline and harvested a comment
C15_Witness ==
    /\ last.calls = <<"peek", "peek", "advance">> /\ last.ret.token.item = "Identifier"
    /\ parser.comments # <<>> /\ parser.source_map[1][1] = "Newline" /\ parser.peek = <<>>

\* the kinds of a list of errors
Kinds(errs) == [i \in 1..Len(errs) |-> errs[i].item.kind]

\* a call of token(tok) or try_token(tok) whose tok differs from, or is, the
\* next significant token: the one a peek() before the call would return
Expecting(name) == Calls(name) /\ last'.tok # peek(parser).out.item
Matching(name) == Calls(name) /\ last'.tok = peek(parser).out.item
Mismatched == (Called_("token") \/ Called_("try_token")) /\ last.ret.option = <<>>

C16_Kept(after, option, actual) == option = <<>> /\ after.peek = <<actual>> /\ after.lexer = peek(after).p.lexer
C16_Consumed(peeked, after, option) == option = <<peeked.out>> /\ after.peek = <<>> /\ after.lexer = peeked.p.lexer
C16_FollowingPeek == Calls("peek") /\ Mismatched => last'.ret.token = peek(Before).out

\* C16 as stated: on a mismatch token(tok) pushes exactly one error,
\* ExpectedToken(tok, actual), and try_token(tok) none, both return None and
\* the following peek() returns the same actual token; on a match both
\* consume and return the token and push no error.
C16_MismatchNeverConsumes ==
    [][/\ Expecting("token") =>
              /\ Kinds(Pushed(parser, parser')) = <<ExpectedToken(last'.tok, peek(parser).out.item)>>
              /\ C16_Kept(parser', last'.ret.option, peek(parser).out)
       /\ Expecting("try_token") =>
              /\ Pushed(parser, parser') = <<>>
              /\ C16_Kept(parser', last'.ret.option, peek(parser).out)
       /\ C16_FollowingPeek
       /\ Matching("token") \/ Matching("try_token") =>
              /\ Pushed(parser, parser') = <<>>
              /\ C16_Consumed(peek(parser), parser', last'.ret.option)]_vars

\* C16, amended: the errors pushed are those of fetching the next token (a
\* LexerError when an unrecognized code point is met, none otherwise),
\* followed on a mismatch of token(tok) by one ExpectedToken(tok, actual).
LexerErrors(before) == Kinds(Pushed(before, peek(before).p))

C16_LexerErrorsOnly == LexerErrors(parser) \in {<<>>, <<LexerError>>}

C16_MismatchKeepsToken ==
    [][/\ Expecting("token") =>
              /\ Kinds(Pushed(parser, parser')) = LexerErrors(parser) \o <<ExpectedToken(last'.tok, peek(parser).out.item)>>
              /\ C16_Kept(parser', last'.ret.option, peek(parser).out)
       /\ Expecting("try_token") =>
              /\ Kinds(Pushed(parser, parser')) = LexerErrors(parser)
              /\ C16_Kept(parser', last'.ret.option, peek(parser).out)
       /\ C16_FollowingPeek
       /\ Matching("token") \/ Matching("try_token") =>
              /\ Kinds(Pushed(parser, parser')) = LexerErrors(parser)
              /\ C16_Consumed(peek(parser), parser', last'.ret.option)
       /\ Calls("token") \/ Calls("try_token") => C16_LexerErrorsOnly]_vars

\* a token(tok) that met an unrecognized code point, and the peek() after it
C16_Witness ==
    /\ last.calls = <<"token", "peek">> /\ last.ret.token.item = "Eof"
    /\ Kinds(parser.errors) = <<LexerError, ExpectedToken("Identifier", "Eof")>>

\* a token(tok) and a try_token(tok) that matched
C16_Matched == last.calls = <<"token", "try_token">> /\ last.ret.option # <<>> /\ Before.errors = <<>> /\ parser.errors = <<>>

\* the length of the text of a source
TextLength(p, source) == Offset(p.source_map[source], Len(p.source_map[source]))

\* C18: SpannedItem<T>::parse never joins spans of different sources (no
\* assertion fails, no subtraction overflows); a span it attaches lies in the
\* source where the parse started, within its text; when T::parse returned
\* Some and left the lexer in another source, at offset 0 the span ends at
\* the length of the text of the starting source, and at another offset
\* exactly one InternalSpanError is pushed and None is returned.
C18_Attached(p, before_span, spanned) ==
    spanned # <<>> =>
        /\ spanned[1].span.source = before_span.source
        /\ End(spanned[1].span) <= TextLength(p, before_span.source)
        /\ Start(spanned[1].span) = End(before_span)

C18_CrossSource(ran, before_span, after_span, after, spanned) ==
    ran.out # <<>> /\ after_span.source # before_span.source =>
        IF after_span.offset = 0
        THEN spanned # <<>> /\ End(spanned[1].span) = TextLength(after, before_span.source) /\ Pushed(ran.p, after) = <<>>
        ELSE spanned = <<>> /\ Kinds(Pushed(ran.p, after)) = <<InternalSpanError(after_span, before_span)>>

C18_Spanned(before, ran, after, spanned) ==
    /\ after.panic = "no"
    /\ C18_Attached(after, lexer_span(before.lexer), spanned)
    /\ C18_CrossSource(ran, lexer_span(before.lexer), lexer_span(ran.p.lexer), after, spanned)

C18_SpansInOneSource ==
    [][Calls("spanned_parse") => C18_Spanned(parser, parse(last'.f, parser), parser', last'.ret.spanned)]_vars

\* a parse that started in the first source and left the lexer at offset 0 of the second
C18_Witness ==
    /\ Called_("spanned_parse") /\ last.ret.spanned # <<>>
    /\ lexer_span(Before.lexer).source = 1 /\ lexer_span(parser.lexer).source = 2 /\ lexer_span(parser.lexer).offset = 0
    /\ End(lexer_span(Before.lexer)) < TextLength(parser, 1)

\* a parse that left the lexer further in the second source
C18_InternalSpanError ==
    Called_("spanned_parse") /\ last.ret.spanned = <<>> /\ \E i \in 1..Len(parser.errors) : parser.errors[i].item.kind.e = "InternalSpanError"

\* the unrecognized code points of the sources: source and index in its text
CodePoints(p) == {at \in (1..Len(p.source_map)) \X (1..MaxTextLen) : at[2] <= Len(p.source_map[at[1]])}
Unrecognized(p) == {at \in CodePoints(p) : p.source_map[at[1]][at[2]] = "Bad"}
SpanAt(p, at) == Span(at[1], Offset(p.source_map[at[1]], at[2] - 1), Width(p.source_map[at[1]][at[2]]))

\* the lexer is past a code point
Skipped(lx, at) == lx.source > at[1] \/ (lx.source = at[1] /\ lx.cursors[at[1]].end >= at[2])

\* the LexerError diagnostics recorded at a span
LexerErrorsAt(p, span) == {i \in 1..Len(p.errors) : p.errors[i].item.kind = LexerError /\ p.errors[i].span = span}

\* C20: for every unrecognized code point the lexer has skipped, exactly one
\* LexerError is recorded, at the span of the code point, and never more
\* than one for any code point.
C20_OneLexerErrorPerCodePoint ==
    pc = "parse" =>
        \A at \in Unrecognized(parser) :
            /\ Cardinality(LexerErrorsAt(parser, SpanAt(parser, at))) <= 1
            /\ Skipped(parser.lexer, at) => Cardinality(LexerErrorsAt(parser, SpanAt(parser, at))) = 1

\* an advance() that meets an unrecognized code point pushes one LexerError at
\* its span and returns Eof at that span; the lexer is past the code point
C20_AdvanceSkips ==
    [][Calls("advance") /\ parser.peek = <<>> /\ Pending(parser.lexer) # <<>> /\ last'.ret.token.span = Pending(parser.lexer)[1].span
           /\ Pending(parser.lexer)[1].item = "Bad"
       => /\ Pushed(parser, parser') = <<WithSpan([kind |-> LexerError, help |-> <<>>], last'.ret.token.span)>>
          /\ last'.ret.token.item = "Eof"
          /\ Pending(parser'.lexer) = Tail(Pending(parser.lexer))]_vars

\* the last element attempt of a sequence: the parser at its start, the
\* number of elements parsed before it, and what P::parse made of it
RECURSIVE LastAttempt(_, _, _, _)
AttemptSeparated(P, separator, ran, peeked, n) ==
    IF peeked.out.item = separator THEN LastAttempt(P, separator, advance(peeked.p).p, n + 1)
    ELSE [start |-> ran.p, before |-> n + 1, failed |-> FALSE, ran |-> ran]

Attempted(P, separator, p, n, ran) ==
    IF ran.out = <<>> THEN [start |-> p, before |-> n, failed |-> TRUE, ran |-> ran]
    ELSE AttemptSeparated(P, separator, ran, peek(ran.p), n)

LastAttempt(P, separator, p, n) == Attempted(P, separator, p, n, parse(P, p))

\* C25: when an element of sequence<P>(separator) fails after a separator
\* was consumed, the lexer and the peek buffer are as at the start of that
\* attempt, the error list is as at the start of that attempt, and the
\* elements parsed before it are returned as Some.
C25_Restored(attempt, after, list) ==
    attempt.failed /\ attempt.before > 0 =>
        /\ SameParseState(after, attempt.start)
        /\ list # <<>> /\ Len(list[1]) = attempt.before

C25_LaterElementFails ==
    [][Calls("sequence") => C25_Restored(LastAttempt(last'.f, last'.tok, parser, 0), parser', last'.ret.list)]_vars

\* an element after a separator that failed with the peek buffer filled and errors pushed
C25_Failed(attempt) ==
    /\ attempt.failed /\ attempt.before > 0
    /\ attempt.ran.p.peek # attempt.start.peek /\ Pushed(attempt.start, attempt.ran.p) # <<>>

C25_Witness == Called_("sequence") /\ C25_Failed(LastAttempt(last.f, last.tok, Before, 0)) /\ last.ret.list # <<>>

\* C30: no comment of the input is twice in the list of captured comments
\* (the list is not drained in these behaviours, so it holds every comment
\* recorded since the parser was made).
C30_CommentsRecordedOnce ==
    pc = "parse" =>
        \A i, j \in 1..Len(parser.comments) : i # j => parser.comments[i] # parser.comments[j]

\* a comment harvested by a closure under with_backtrack that returned None
C30_Backtracked ==
    /\ Called_("with_backtrack") /\ last.ret.result.res = "Err"
    /\ Len(parser.comments) = Len(Before.comments) + 1 /\ parser.lexer = Before.lexer

\* C29: a Unify constraint whose application pushes a UnificationFailure
\* leaves every type slot as it was.
C29_FailingUnifyKeepsTypes ==
    [][(Applying /\ Current.kind = "Unify" /\ pc' = "solve" /\ NewErrors # <<>>) => tc'.types = tc.types]_vars

\* C28: in every state of the collection and the solving of a program the
\* five sentinel slots hold Unit, String, Boolean, Integer and ErrorRecovery.
C28_SentinelsKept == resolved # NoProgram => \A i \in 1..Len(DefaultTypes) : tc.types[i] = DefaultTypes[i]

(***************************************************************************)
(* Programs that hand literals to intrinsics and to if: the checker is run *)
(* on sequences of at most MaxFuncs of these declarations, `add` and the   *)
(* callers `main`, and on the programs with a type declaration.            *)
(***************************************************************************)
\* fn add_literals() returns 'int @add(1, 2)
add_literals == FunctionDecl(Ident("add_literals", 140), <<>>, TyInteger, EIntrinsic("Add", <<IntLit(1, 141), IntLit(2, 142)>>, 143))

\* fn puts_literal() returns 'unit @puts("hi")
puts_literal == FunctionDecl(Ident("puts_literal", 150), <<>>, TyUnit, EIntrinsic("Puts", <<ELiteral(LitString("hi"), 151)>>, 152))

\* fn if_literal() returns 'int if true then 1 else 2
if_literal == FunctionDecl(Ident("if_literal", 160), <<>>, TyInteger, EIf(BoolLit(TRUE, 161), IntLit(1, 162), IntLit(2, 163), 164))

LiteralDeclarations == {add_literals, puts_literal, if_literal, add} \cup {main(g) : g \in 1..MaxFuncs}

LiteralPrograms ==
    {[types |-> <<>>, functions |-> fs] : fs \in {fs \in UNION {[1..n -> LiteralDeclarations] : n \in 1..MaxFuncs} : WellResolved(fs)}}
    \cup DeclaredTypePrograms

LiteralInit ==
    /\ resolved \in LiteralPrograms
    /\ tc = TypeCheckerOf(resolved)
    /\ pc = "new" /\ run = 0 /\ idx = 0 /\ snapshot = <<>> /\ parser = <<>> /\ last = <<>> /\ binder = <<>> /\ cli = <<>>

SpecLiterals == LiteralInit /\ [][Next]_vars

\* a function no declaration of the program calls and that is not named main
Uncalled(f) ==
    /\ resolved.functions[f].name.id # "main"
    /\ \A g \in 1..Len(resolved.functions) : f \notin Callees(resolved.functions[g].body)

\* no other declaration of the program has a body at the span of the body of f
OwnSpan(f) ==
    \A g \in 1..Len(resolved.functions) : g # f => resolved.functions[g].body.span # resolved.functions[f].body.span

Relates(con, a, b) == (con.t1 = a /\ con.t2 = b) \/ (con.t1 = b /\ con.t2 = a)

\* C27: for a typed function that is never called and is not main, no
\* constraint relates the type of its body to its declared return type, the
\* monomorphization table has no entry of it, and no error is reported at
\* its body for a return type it fails to satisfy (an error is told from
\* those of other declarations by its span).
C27_NotConstrained(f, typed) ==
    /\ \A i \in 1..Len(tc.constraints) : ~Relates(tc.constraints[i], typed.return_ty, expr_ty(typed.body))
    /\ \A signature \in DOMAIN tc.monomorphized_functions : signature[1] # f
    /\ OwnSpan(f) =>
          \A i \in 1..Len(tc.errors) : ~(tc.errors[i].span = typed.body.span /\ tc.errors[i].item.kind = "FailedToSatisfy")

C27_ReturnCheckedAtCallSites ==
    resolved # NoProgram /\ pc \in {"functions", "main", "solve", "constructed", "returned"} =>
        \A f \in DOMAIN tc.typed_functions : Uncalled(f) => C27_NotConstrained(f, tc.typed_functions[f])

\* the checker has returned from a program with an uncalled function whose
\* body is a list and whose declared return type is bool
C27_Witness ==
    /\ resolved # NoProgram /\ pc = "returned"
    /\ \E f \in DOMAIN tc.typed_functions :
          /\ Uncalled(f) /\ tc.typed_functions[f].body.kind = "List"
          /\ Resolved(tc.types, tc.typed_functions[f].return_ty) = Boolean
          /\ Resolved(tc.types, expr_ty(tc.typed_functions[f].body)).k = "List"

\* the variable references of a typed expression, at any depth
RECURSIVE VariableRefs(_)
VariableRefs(e) ==
    CASE e.kind = "Variable" -> {e}
      [] e.kind = "FunctionCall" -> UNION {VariableRefs(e.args[i][2]) : i \in 1..Len(e.args)}
      [] e.kind \in {"Intrinsic", "TypeConstructor"} -> UNION {VariableRefs(e.args[i]) : i \in 1..Len(e.args)}
      [] e.kind = "List" -> UNION {VariableRefs(e.elements[i]) : i \in 1..Len(e.elements)}
      [] e.kind = "ExprWithBindings" -> VariableRefs(e.expression) \cup UNION {VariableRefs(e.bindings[i][2]) : i \in 1..Len(e.bindings)}
      [] e.kind = "If" -> VariableRefs(e.condition) \cup VariableRefs(e.then_branch) \cup VariableRefs(e.else_branch)
      [] OTHER -> {}

\* C26: in every entry of the monomorphization table each parameter has a
\* slot of its own, not that of the declaration, holding the type of the
\* argument, and every variable reference of the body that names a parameter
\* carries the slot of that parameter.
C26_Specialized(signature, decl, specialization) ==
    /\ \A i \in 1..Len(specialization.params) :
          /\ specialization.params[i][2] # decl.params[i][2]
          /\ tc.types[specialization.params[i][2]] = signature[2][i]
    /\ \A v \in VariableRefs(specialization.body) : \A i \in 1..Len(specialization.params) :
          specialization.params[i][1].id = v.name.id => v.ty = specialization.params[i][2]

C26_SpecializationsCarryNewSlots ==
    resolved # NoProgram /\ pc \in {"types", "functions", "main", "solve", "constructed", "returned"} =>
        \A signature \in DOMAIN tc.monomorphized_functions :
            signature[1] \in DOMAIN tc.typed_functions =>
                C26_Specialized(signature, tc.typed_functions[signature[1]], tc.monomorphized_functions[signature])

(***************************************************************************)
(* Part III.  The binder (swim-bind/src/binder.rs).  Ids are positions in  *)
(* the arenas, from 1; the parent of a scope is 0 for None.  A map from    *)
(* names to items is a function.  `aborted` is not a field of the struct:  *)
(* it records the panic of an expect.                                      *)
(***************************************************************************)
MaxModules == 2
MaxNodes == 2
MaxParams == 2
MaxVariants == 2
MaxFields == 1

\* enum Item (binder.rs 42-51)
ItemFunction(function_id, scope_id) == [item |-> "Function", id |-> function_id, scope |-> scope_id, of |-> "-"]
ItemType(type_id) == [item |-> "Type", id |-> type_id, scope |-> 0, of |-> "-"]
ItemFunctionParameter(ty) == [item |-> "FunctionParameter", id |-> 0, scope |-> 0, of |-> ty]
ItemImport(path) == [item |-> "Import", id |-> 0, scope |-> 0, of |-> path]

\* Binder::new (binder.rs 103-112)
Binder_new == [scopes |-> <<>>, scope_chain |-> <<>>, functions |-> <<>>, types |-> <<>>, modules |-> <<>>, aborted |-> "no"]

\* Binder::find_symbol_in_scope (binder.rs 129-144): <<>> for None
RECURSIVE find_symbol_in_scope(_, _, _)
find_symbol_in_scope(b, name, scope_id) ==
    IF name \in DOMAIN b.scopes[scope_id].items THEN <<b.scopes[scope_id].items[name]>>
    ELSE IF b.scopes[scope_id].parent # 0 THEN find_symbol_in_scope(b, name, b.scopes[scope_id].parent)
    ELSE <<>>

\* Binder::insert_into_current_scope (binder.rs 151-158)
insert_into_current_scope(b, name, item) ==
    IF b.scope_chain = <<>> THEN [b EXCEPT !.aborted = "panic"]
    ELSE [b EXCEPT !.scopes[b.scope_chain[Len(b.scope_chain)]].items = MapInsert(@, name, item)]

\* mutant: a scope is its own parent
push_scope_OwnParent(b) ==
    [b |-> [b EXCEPT !.scopes = Append(@, [parent |-> Len(b.scopes) + 1, items |-> EmptyMap]),
                     !.scope_chain = Append(@, Len(b.scopes) + 1)],
     out |-> Len(b.scopes) + 1]

\* Binder::push_scope (binder.rs 160-171)
push_scope(b) ==
    [b |-> [b EXCEPT !.scopes = Append(@, [parent |-> IF b.scope_chain = <<>> THEN 0 ELSE b.scope_chain[Len(b.scope_chain)],
                                            items |-> EmptyMap]),
                     !.scope_chain = Append(@, Len(b.scopes) + 1)],
     out |-> Len(b.scopes) + 1]

\* Binder::pop_scope (binder.rs 173-175)
pop_scope(b) == [b EXCEPT !.scope_chain = IF @ = <<>> THEN <<>> ELSE SubSeq(@, 1, Len(@) - 1)]

\* for param in arg.parameters.iter() (binder.rs 245-247)
RECURSIVE insert_parameters(_, _)
insert_parameters(b, parameters) ==
    IF parameters = <<>> THEN b
    ELSE insert_parameters(insert_into_current_scope(b, Head(parameters).name.id, ItemFunctionParameter(Head(parameters).ty)), Tail(parameters))

\* mutant: every declaration is exported
exported_Always(b, decl, item) == [b |-> b, out |-> <<(<<decl.name, item>>)>>]

\* if arg.is_exported() (binder.rs 252-256, 232-236)
exported(b, decl, item) == [b |-> b, out |-> IF decl.visibility = "Exported" THEN <<(<<decl.name, item>>)>> ELSE <<>>]

\* the function is in the arena; pushed is the scope of its body (binder.rs 244-251)
insert_function_scoped(b, arg, function_id, func_body_scope) ==
    exported(insert_into_current_scope(b, arg.name.id, ItemFunction(function_id, func_body_scope)), arg,
             ItemFunction(function_id, func_body_scope))

insert_function_in(arg, function_id, pushed) ==
    insert_function_scoped(pop_scope(insert_parameters(pushed.b, arg.parameters)), arg, function_id, pushed.out)

\* Binder::insert_function (binder.rs 239-257)
insert_function(b, arg) ==
    insert_function_in(arg, Len(b.functions) + 1, push_scope([b EXCEPT !.functions = Append(@, arg)]))

\* the constructor function of a variant (binder.rs 215-221): its parameters
\* are the fields, each named as the variant
constructor_of(ty_decl, variant) ==
    [node |-> "FunctionDeclaration", name |-> variant.name,
     parameters |-> [i \in 1..Len(variant.fields) |-> [name |-> variant.name, ty |-> variant.fields[i]]],
     visibility |-> ty_decl.visibility]

\* one variant (binder.rs 198-225): the scope is opened and closed with nothing entered
insert_variant_in(ty_decl, variant, pushed) ==
    LET b == pop_scope(pushed.b)
    IN insert_into_current_scope([b EXCEPT !.functions = Append(@, constructor_of(ty_decl, variant))],
                                 variant.name.id, ItemFunction(Len(b.functions) + 1, pushed.out))

RECURSIVE insert_variants(_, _, _)
insert_variants(b, ty_decl, variants) ==
    IF variants = <<>> THEN b
    ELSE insert_variants(insert_variant_in(ty_decl, Head(variants), push_scope(b)), ty_decl, Tail(variants))

\* Binder::insert_type (binder.rs 191-237)
insert_type_as(b, ty_decl, type_id) ==
    exported(insert_variants(insert_into_current_scope(b, ty_decl.name.id, ItemType(type_id)), ty_decl, ty_decl.variants),
             ty_decl, ItemType(type_id))

Binder_insert_type(b, ty_decl) == insert_type_as([b EXCEPT !.types = Append(@, ty_decl)], ty_decl, Len(b.types) + 1)

\* the Bind implementations of the declarations: a function declaration is
\* handed to insert_function, a type declaration to insert_type, and an
\* import is entered into the scope of the module and exports nothing
bind(b, node) ==
    IF node.node = "FunctionDeclaration" THEN insert_function(b, node)
    ELSE IF node.node = "TypeDeclaration" THEN Binder_insert_type(b, node)
    ELSE [b |-> insert_into_current_scope(b, node.name.id, ItemImport(node.name.id)), out |-> <<>>]

\* BTreeMap::from_iter(exports) (binder.rs 276)
RECURSIVE from_iter(_)
from_iter(pairs) == IF pairs = <<>> THEN EmptyMap ELSE MapInsert(from_iter(SubSeq(pairs, 1, Len(pairs) - 1)), pairs[Len(pairs)][1], pairs[Len(pairs)][2])

\* the declarations a module is drawn from: a function f of up to MaxParams
\* parameters, a type T of up to MaxVariants variants of up to MaxFields
\* fields, and an import of m
Identifier(id) == [id |-> id]
Visibilities == {"Local", "Exported"}
ParameterNames == <<"a", "b", "c">>
VariantNames == <<"A", "B", "C">>
ParameterLists == {[i \in 1..n |-> [name |-> Identifier(ParameterNames[i]), ty |-> "int"]] : n \in 0..MaxParams}
FieldLists == {[i \in 1..n |-> "int"] : n \in 0..MaxFields}
VariantLists ==
    UNION {{[i \in 1..n |-> [name |-> Identifier(VariantNames[i]), fields |-> fs[i]]] : fs \in [1..n -> FieldLists]} : n \in 0..MaxVariants}
FunctionDeclarations ==
    {[node |-> "FunctionDeclaration", name |-> Identifier("f"), parameters |-> ps, variants |-> <<>>, visibility |-> v] :
        ps \in ParameterLists, v \in Visibilities}
TypeDeclarations ==
    {[node |-> "TypeDeclaration", name |-> Identifier("T"), parameters |-> <<>>, variants |-> vs, visibility |-> v] :
        vs \in VariantLists, v \in Visibilities}
ImportStatements ==
    {[node |-> "ImportStatement", name |-> Identifier("m"), parameters |-> <<>>, variants |-> <<>>, visibility |-> v] : v \in Visibilities}
AstNodes == FunctionDeclarations \cup TypeDeclarations \cup ImportStatements
\* the top-level names of a module are distinct
AstModules ==
    UNION {{nodes \in [1..n -> AstNodes] : \A i, j \in 1..n : i # j => nodes[i].name # nodes[j].name} : n \in 0..MaxNodes}
Asts == UNION {[1..n -> AstModules] : n \in 1..MaxModules}

BindInit ==
    /\ resolved = NoProgram /\ tc = <<>> /\ pc = "bind" /\ run = 0 /\ idx = 0 /\ snapshot = <<>>
    /\ parser = <<>> /\ last = <<>> /\ cli = <<>>
    /\ \E ast \in Asts :
        binder = [ast |-> ast, b |-> Binder_new, module |-> 1, node |-> 0, exports |-> <<>>, root_scope |-> 0, entered |-> <<>>]

Bound(b) ==
    /\ binder' = b
    /\ pc' = IF b.b.aborted = "no" THEN pc ELSE "panic"
    /\ UNCHANGED <<resolved, tc, run, idx, snapshot, parser, last, cli>>

\* binder.with_scope(|binder, scope_id| ...) is entered for the next module (binder.rs 269-270, 182)
module_entered(pushed) ==
    Bound([binder EXCEPT !.b = pushed.b, !.root_scope = pushed.out, !.entered = binder.b.scope_chain,
                         !.node = 1, !.exports = <<>>])

ModuleEnter ==
    /\ pc = "bind" /\ binder.module <= Len(binder.ast) /\ binder.node = 0
    /\ module_entered(push_scope(binder.b))

\* the filter_map over the nodes of the module binds the next node (binder.rs 271-275)
node_bound(bound) == Bound([binder EXCEPT !.b = bound.b, !.exports = @ \o bound.out, !.node = @ + 1])

BindNode ==
    /\ pc = "bind" /\ binder.module <= Len(binder.ast)
    /\ binder.node \in 1..Len(binder.ast[binder.module])
    /\ node_bound(bind(binder.b, binder.ast[binder.module][binder.node]))

\* the module is recorded and with_scope pops its scope (binder.rs 276-280, 184)
ModuleLeave ==
    /\ pc = "bind" /\ binder.module <= Len(binder.ast)
    /\ binder.node = Len(binder.ast[binder.module]) + 1
    /\ Bound([binder EXCEPT
                !.b = pop_scope([binder.b EXCEPT !.modules = Append(@, [root_scope |-> binder.root_scope,
                                                                         exports |-> from_iter(binder.exports)])]),
                !.module = @ + 1, !.node = 0])

BindNext == ModuleEnter \/ BindNode \/ ModuleLeave
SpecBind == BindInit /\ [][BindNext]_vars

\* from_ast has returned
FromAstReturned == pc = "bind" /\ binder.module > Len(binder.ast)

\* following parents from a scope reaches a scope without parent in at most fuel steps
RECURSIVE ParentChainEnds(_, _, _)
ParentChainEnds(b, scope_id, fuel) ==
    /\ fuel > 0
    /\ b.scopes[scope_id].parent # 0 => ParentChainEnds(b, b.scopes[scope_id].parent, fuel - 1)

\* the item of the nearest scope, from scope_id upwards, that has the name
RECURSIVE Nearest(_, _, _, _)
Nearest(b, name, scope_id, fuel) ==
    IF fuel = 0 \/ scope_id = 0 THEN <<>>
    ELSE IF name \in DOMAIN b.scopes[scope_id].items THEN <<b.scopes[scope_id].items[name]>>
    ELSE Nearest(b, name, b.scopes[scope_id].parent, fuel - 1)

SymbolNames == {"f", "T", "m", "a", "A", "z"}

C21_ParentsAreOlder ==
    pc \in {"bind", "panic"} /\ binder # <<>> =>
        \A scope_id \in 1..Len(binder.b.scopes) :
            /\ binder.b.scopes[scope_id].parent < scope_id
            /\ ParentChainEnds(binder.b, scope_id, Len(binder.b.scopes))
            /\ \A name \in SymbolNames :
                find_symbol_in_scope(binder.b, name, scope_id) = Nearest(binder.b, name, scope_id, Len(binder.b.scopes))

C21_WithScopeRestores ==
    /\ (binder.node >= 1 /\ binder'.node = binder.node + 1) => binder'.b.scope_chain = binder.b.scope_chain
    /\ (binder.node >= 1 /\ binder'.node = 0) => binder'.b.scope_chain = binder.entered

\* C21: the parent of every scope, if it has one, has a strictly smaller id,
\* so the parent links have no cycle and find_symbol_in_scope ends, with the
\* item of the nearest enclosing scope that has the name; and every
\* with_scope call, of a declaration or of a module, leaves the scope chain
\* as it found it
C21_ScopesFormForest == [](C21_ParentsAreOlder) /\ [][C21_WithScopeRestores]_vars

\* a function with parameters was bound among three scopes or more,
\* the scope of the function under the scope of its module
C21_Witness ==
    /\ FromAstReturned /\ Len(binder.b.scopes) >= 3
    /\ \E scope_id \in 2..Len(binder.b.scopes) :
        /\ binder.b.scopes[scope_id].parent = scope_id - 1
        /\ "a" \in DOMAIN binder.b.scopes[scope_id].items
        /\ find_symbol_in_scope(binder.b, "f", scope_id) # <<>>
    /\ binder.b.scope_chain = <<>>

\* the scope of the function item has an entry for every parameter of its declaration
HasParameterEntries(b, item) ==
    \A i \in 1..Len(b.functions[item.id].parameters) :
        b.functions[item.id].parameters[i].name.id \in DOMAIN b.scopes[item.scope].items

\* the function items of all scopes
FunctionItemsOf(b) ==
    UNION {{b.scopes[scope_id].items[name] : name \in {n \in DOMAIN b.scopes[scope_id].items : b.scopes[scope_id].items[n].item = "Function"}} :
              scope_id \in 1..Len(b.scopes)}

\* C22: once from_ast has returned, the scope that a function item refers
\* to has an entry for each parameter name of the function's declaration,
\* for declared functions and for the constructors of variants with fields
C22_FunctionScopesHoldParameters ==
    FromAstReturned => \A item \in FunctionItemsOf(binder.b) : HasParameterEntries(binder.b, item)

\* the same of the functions that the program declares
C22_DeclaredFunctions ==
    FromAstReturned =>
        \A item \in FunctionItemsOf(binder.b) :
            binder.b.functions[item.id].name.id = "f" => HasParameterEntries(binder.b, item)

\* a declared function of two parameters was bound
C22_DeclaredBound ==
    /\ FromAstReturned
    /\ \E item \in FunctionItemsOf(binder.b) :
        /\ binder.b.functions[item.id].name.id = "f"
        /\ Len(binder.b.functions[item.id].parameters) = 2
        /\ DOMAIN binder.b.scopes[item.scope].items = {"a", "b"}

\* the names of the functions and types of a module that are flagged Exported
ExportedNames(nodes) ==
    {nodes[i].name : i \in {j \in 1..Len(nodes) : nodes[j].node # "ImportStatement" /\ nodes[j].visibility = "Exported"}}

\* the names of the variants of the types of a module
VariantNamesOf(nodes) ==
    UNION {{nodes[i].variants[v].name : v \in 1..Len(nodes[i].variants)} : i \in 1..Len(nodes)}

\* C23: the export table of every recorded module has exactly the functions
\* and types of the module that are flagged Exported, each with the item it
\* has in the root scope of the module; nothing that is not exported is in
\* it, and no constructor of a type, exported or not
C23_ExportsAreTheExported ==
    pc = "bind" =>
        \A m \in 1..Len(binder.b.modules) :
            /\ DOMAIN binder.b.modules[m].exports = ExportedNames(binder.ast[m])
            /\ \A name \in DOMAIN binder.b.modules[m].exports :
                /\ name.id \in DOMAIN binder.b.scopes[binder.b.modules[m].root_scope].items
                /\ binder.b.modules[m].exports[name] = binder.b.scopes[binder.b.modules[m].root_scope].items[name.id]
                /\ binder.b.modules[m].exports[name].item \in {"Function", "Type"}
            /\ VariantNamesOf(binder.ast[m]) \cap DOMAIN binder.b.modules[m].exports = {}

\* a module of an exported type with a constructor and a function that is
\* not exported was recorded: the type alone is exported
C23_Witness ==
    /\ FromAstReturned
    /\ \E m \in 1..Len(binder.b.modules) :
        /\ DOMAIN binder.b.modules[m].exports = {Identifier("T")}
        /\ {"f", "T", "A"} \subseteq DOMAIN binder.b.scopes[binder.b.modules[m].root_scope].items
        /\ binder.b.scopes[binder.b.modules[m].root_scope].items["A"].item = "Function"

(***************************************************************************)
(* Part IV.  compile of the command line (petr-cli/src/main.rs 144-250).   *)
(* What the stages report is drawn: the errors of a stage are told apart   *)
(* by stage and number.  `rendered` is the output of render_errors, and    *)
(* `lowering` tells whether Lowerer::new was called.                       *)
(***************************************************************************)
MaxErrs == 2
MaxItems == 1

ErrorsOf(stage, n) == [i \in 1..n |-> [stage |-> stage, n |-> i]]

\* render_errors(errs, &source_map): every error of the list is rendered, in order
render_errors(c, errs) == [c EXCEPT !.rendered = @ \o errs]

\* return from compile
compile_return(c, ret) == [c EXCEPT !.at = "returned", !.ret = ret]

CompileInit ==
    /\ resolved = NoProgram /\ tc = <<>> /\ pc = "compile" /\ run = 0 /\ idx = 0 /\ snapshot = <<>>
    /\ parser = <<>> /\ last = <<>> /\ binder = <<>>
    /\ cli = [at |-> "load", items |-> 0, parse_errs |-> <<>>, resolution_errs |-> <<>>, rendered |-> <<>>,
              lowering |-> FALSE, ret |-> "-"]

Compiled(c) ==
    /\ cli' = c
    /\ pc' = IF c.at = "panicked" THEN "panic" ELSE pc
    /\ UNCHANGED <<resolved, tc, run, idx, snapshot, parser, last, binder>>

\* load_project_and_dependencies(&path)? and the writing of the lockfile (main.rs 150-154)
CompileLoad ==
    /\ pc = "compile" /\ cli.at = "load"
    /\ \/ Compiled(compile_return(cli, "Pkg"))
       \/ Compiled([cli EXCEPT !.at = "panicked"])
       \/ \E items \in 0..MaxItems : Compiled([cli EXCEPT !.at = "parse", !.items = items])

\* the user code is parsed (main.rs 162-169)
CompileParse ==
    /\ pc = "compile" /\ cli.at = "parse"
    /\ \E n \in 0..MaxErrs : Compiled([cli EXCEPT !.at = "stdlib", !.parse_errs = ErrorsOf("user", n)])

\* the stdlib is parsed and its errors appended (main.rs 171-183)
CompileParseStdlib ==
    /\ pc = "compile" /\ cli.at = "stdlib"
    /\ \E n \in 0..MaxErrs : Compiled([cli EXCEPT !.at = "dependencies", !.parse_errs = @ \o ErrorsOf("std", n)])

\* one item of the build plan is loaded and parsed (main.rs 185-211)
CompileParseDependency ==
    /\ pc = "compile" /\ cli.at = "dependencies" /\ cli.items > 0
    /\ \/ \E ret \in {"Pkg", "TomlSerialize", "Io"} : Compiled(compile_return(cli, ret))
       \/ \E n \in 0..MaxErrs : Compiled([cli EXCEPT !.items = @ - 1, !.parse_errs = @ \o ErrorsOf("dependency", n)])

\* resolve_symbols (main.rs 216-220)
CompileResolve ==
    /\ pc = "compile" /\ cli.at = "dependencies" /\ cli.items = 0
    /\ \E n \in 0..MaxErrs : Compiled([cli EXCEPT !.at = "type_check", !.resolution_errs = ErrorsOf("resolve", n)])

\* type_check and the match on its result (main.rs 222-235)
CompileTypeCheck ==
    /\ pc = "compile" /\ cli.at = "type_check"
    /\ \/ Compiled([cli EXCEPT !.at = "lower"])
       \/ \E n \in 1..MaxErrs :
            Compiled(compile_return(render_errors(render_errors(cli, cli.parse_errs), ErrorsOf("type", n)), "FailedToTypeCheck"))

\* Lowerer::new, and on success the rendering and the return (main.rs 237-249)
CompileLower ==
    /\ pc = "compile" /\ cli.at = "lower"
    /\ \/ Compiled(compile_return([cli EXCEPT !.lowering = TRUE], "FailedToLower"))
       \/ Compiled(compile_return(render_errors(render_errors([cli EXCEPT !.lowering = TRUE], cli.parse_errs), cli.resolution_errs), "Ok"))

CompileNext ==
    \/ CompileLoad \/ CompileParse \/ CompileParseStdlib \/ CompileParseDependency
    \/ CompileResolve \/ CompileTypeCheck \/ CompileLower
SpecCompile == CompileInit /\ [][CompileNext]_vars

\* every error of the list is in the output
AllRendered(errs) == \A i \in 1..Len(errs) : \E j \in 1..Len(cli.rendered) : cli.rendered[j] = errs[i]

CompileReturned(ret) == pc = "compile" /\ cli.at = "returned" /\ cli.ret = ret

\* C24: when compile has returned, with a Lowerer, with FailedToTypeCheck or
\* with FailedToLower, every parse error and every resolution error that was
\* collected has been rendered; and when it returned FailedToTypeCheck,
\* Lowerer::new was not called
C24_ErrorsRenderedBeforeReturn ==
    /\ \A ret \in {"Ok", "FailedToTypeCheck", "FailedToLower"} :
        CompileReturned(ret) => AllRendered(cli.parse_errs) /\ AllRendered(cli.resolution_errs)
    /\ CompileReturned("FailedToTypeCheck") => ~cli.lowering

\* what holds of it: the parse errors are rendered on success and on a type
\* error, the resolution errors on success, and a type error ends compile
\* before Lowerer::new
C24_RenderedWhereRendered ==
    /\ CompileReturned("Ok") => AllRendered(cli.parse_errs) /\ AllRendered(cli.resolution_errs)
    /\ CompileReturned("FailedToTypeCheck") => AllRendered(cli.parse_errs) /\ ~cli.lowering

\* compile returned FailedToTypeCheck with a parse error and a resolution error collected
C24_TypeCheckFailed ==
    CompileReturned("FailedToTypeCheck") /\ cli.parse_errs # <<>> /\ cli.resolution_errs # <<>>

====
